---------------------------- MODULE Spec2Model ----------------------------
(***************************************************************************)
(* A model of chasquid's MTA-STS policy subsystem (internal/sts/sts.go):   *)
(* the policy parser and validity check, the fetch pipeline, the on-disk   *)
(* policy cache whose file mtime is the expiry instant, and the background *)
(* refresher started by the server's main function.                        *)
(*                                                                         *)
(* Strings are sequences of one-character strings, so that splitting,      *)
(* trimming and prefix tests are computed as the code computes them.       *)
(* 64-bit integers (int, time.Duration, instants in nanoseconds) are four  *)
(* 16-bit limbs, least significant first, in two's complement, so that     *)
(* arithmetic wraps modulo 2^64 exactly as Go's does.                      *)
(***************************************************************************)
EXTENDS Integers, Sequences, FiniteSets, TLC

(***************************************************************************)
(* 64-bit integers                                                         *)
(***************************************************************************)
Base == 2^16

HalfBase == 2^15

I64Zero == <<0, 0, 0, 0>>

\* math.MaxInt64 and math.MinInt64, the values strconv clamps to.
I64Max == <<Base - 1, Base - 1, Base - 1, HalfBase - 1>>

I64Min == <<0, 0, 0, HalfBase>>

RECURSIVE LimbMulAdd(_, _, _)
\* x*m + a on a limb sequence, keeping Len(x) limbs (the carry out of the
\* top limb is dropped: the product wraps modulo Base^Len(x)).
LimbMulAdd(x, m, a) ==
    IF x = <<>> THEN <<>>
    ELSE LET t == x[1] * m + a
         IN  <<t % Base>> \o LimbMulAdd(Tail(x), m, t \div Base)

RECURSIVE LimbAdd(_, _, _)
\* x + y + c on two limb sequences of the same length, wrapping.
LimbAdd(x, y, c) ==
    IF x = <<>> THEN <<>>
    ELSE LET t == x[1] + y[1] + c
         IN  <<t % Base>> \o LimbAdd(Tail(x), Tail(y), t \div Base)

I64Add(x, y) == LimbAdd(x, y, 0)

\* Two's complement negation: invert every limb and add one.
I64Neg(x) == LimbAdd([i \in 1..4 |-> Base - 1 - x[i]], I64Zero, 1)

I64Sub(x, y) == I64Add(x, I64Neg(y))

I64IsNeg(x) == x[4] >= HalfBase

\* The limbs of a small natural number (n < 2^31).
I64FromNat(n) == <<n % Base, (n \div Base) % Base, 0, 0>>

\* Signed x < y: compare from the top limb down, the top limb with its sign
\* bit flipped.
I64Less(x, y) ==
    LET bx == (x[4] + HalfBase) % Base
        by == (y[4] + HalfBase) % Base
    IN  \/ bx < by
        \/ bx = by /\ x[3] < y[3]
        \/ bx = by /\ x[3] = y[3] /\ x[2] < y[2]
        \/ bx = by /\ x[3] = y[3] /\ x[2] = y[2] /\ x[1] < y[1]

I64LessEq(x, y) == ~I64Less(y, x)

\* time.Second, in nanoseconds: 10^9 = 1000 * 1000 * 1000.
\* d * time.Second wraps modulo 2^64.
MulSecond(d) == LimbMulAdd(LimbMulAdd(LimbMulAdd(d, 1000, 0), 1000, 0), 1000, 0)

\* n seconds as a time.Duration, for a small natural n.
Seconds(n) == MulSecond(I64FromNat(n))


(***************************************************************************)
(* Strings                                                                 *)
(***************************************************************************)
\* The words the code compares against, as character sequences.
sVersion == <<"v", "e", "r", "s", "i", "o", "n">>

sMode == <<"m", "o", "d", "e">>

sMaxAge == <<"m", "a", "x", "_", "a", "g", "e">>

sMx == <<"m", "x">>

sSTSv1 == <<"S", "T", "S", "v", "1">>

\* The modes of a policy (Enforce, Testing, None).
Enforce == <<"e", "n", "f", "o", "r", "c", "e">>

Testing == <<"t", "e", "s", "t", "i", "n", "g">>

None == <<"n", "o", "n", "e">>

\* The TXT record prefix hasSTSRecord looks for.
sTXTPrefix == <<"v", "=", "S", "T", "S", "v", "1", ";">>

pathPrefix == <<"p", "o", "l", ":">>

\* strings.HasPrefix
HasPrefix(s, prefix) ==
    Len(s) >= Len(prefix) /\ SubSeq(s, 1, Len(prefix)) = prefix

\* strings.Contains for a one-character substring.
Contains(s, ch) == \E i \in 1..Len(s) : s[i] = ch

\* The index of the first occurrence of ch in s, 0 when there is none.
IndexOf(s, ch) ==
    IF Contains(s, ch)
    THEN CHOOSE i \in 1..Len(s) : s[i] = ch /\ \A j \in 1..(i - 1) : s[j] # ch
    ELSE 0

\* unicode.IsSpace on the characters the model uses.
IsSpace(ch) == ch \in {" ", "\t", "\n", "\r"}

RECURSIVE TrimLeft(_)
TrimLeft(s) == IF s # <<>> /\ IsSpace(s[1]) THEN TrimLeft(Tail(s)) ELSE s

RECURSIVE TrimRight(_)
TrimRight(s) ==
    IF s # <<>> /\ IsSpace(s[Len(s)]) THEN TrimRight(SubSeq(s, 1, Len(s) - 1)) ELSE s

\* strings.TrimSpace
TrimSpace(s) == TrimRight(TrimLeft(s))

\* strings.SplitN(s, ":", 2): the text before and after the first colon, or
\* the one-element sequence <<s>> when s has no colon.
SplitN2(s) ==
    LET i == IndexOf(s, ":")
    IN  IF i = 0 THEN <<s>>
        ELSE <<SubSeq(s, 1, i - 1), SubSeq(s, i + 1, Len(s))>>

\* bufio.ScanLines: a line ends at a newline, one carriage return before it
\* is dropped, and the last non-empty line needs no newline.
DropCR(s) == IF s # <<>> /\ s[Len(s)] = "\r" THEN SubSeq(s, 1, Len(s) - 1) ELSE s

RECURSIVE ScanLines(_)
ScanLines(raw) ==
    IF raw = <<>> THEN <<>>
    ELSE LET i == IndexOf(raw, "\n")
         IN  IF i = 0 THEN <<DropCR(raw)>>
             ELSE <<DropCR(SubSeq(raw, 1, i - 1))>> \o ScanLines(SubSeq(raw, i + 1, Len(raw)))

(***************************************************************************)
(* strconv.Atoi, on a 64-bit platform                                      *)
(***************************************************************************)
Digits == <<"0", "1", "2", "3", "4", "5", "6", "7", "8", "9">>

IsDigit(ch) == \E i \in 1..10 : Digits[i] = ch

DigitVal(ch) == (CHOOSE i \in 1..10 : Digits[i] = ch) - 1

\* The unsigned magnitude accumulates in five limbs, so that a value past
\* 2^64 - 1 is seen before it wraps; rng records that it overflowed uint64.
RECURSIVE ParseUintFrom(_, _)
ParseUintFrom(s, acc) ==
    IF s = <<>> THEN acc
    ELSE IF ~IsDigit(s[1]) THEN [err |-> "syntax", rng |-> FALSE, v |-> <<0, 0, 0, 0, 0>>]
    ELSE IF acc.rng THEN ParseUintFrom(Tail(s), acc)
    ELSE LET n == LimbMulAdd(acc.v, 10, DigitVal(s[1]))
         IN  ParseUintFrom(Tail(s), [err |-> "nil", rng |-> n[5] # 0, v |-> n])

\* strconv.ParseUint(s, 10, 64)
ParseUint(s) ==
    IF s = <<>> THEN [err |-> "syntax", rng |-> FALSE, v |-> <<0, 0, 0, 0, 0>>]
    ELSE ParseUintFrom(s, [err |-> "nil", rng |-> FALSE, v |-> <<0, 0, 0, 0, 0>>])

\* strconv.Atoi(s): the value of a decimal integer with an optional sign;
\* 0 with a syntax error for anything else; the nearest of MaxInt64 and
\* MinInt64 with a range error for a value that does not fit.
Atoi(s) ==
    IF s = <<>> THEN [val |-> I64Zero, err |-> "syntax"]
    ELSE LET neg  == s[1] = "-"
             body == IF s[1] \in {"+", "-"} THEN Tail(s) ELSE s
             u    == ParseUint(body)
             mag  == SubSeq(u.v, 1, 4)
         IN  IF u.err = "syntax" THEN [val |-> I64Zero, err |-> "syntax"]
             ELSE IF ~neg /\ (u.rng \/ I64IsNeg(mag))
                  THEN [val |-> I64Max, err |-> "range"]
             ELSE IF neg /\ (u.rng \/ (I64IsNeg(mag) /\ mag # I64Min))
                  THEN [val |-> I64Min, err |-> "range"]
             ELSE [val |-> IF neg THEN I64Neg(mag) ELSE mag, err |-> "nil"]

(***************************************************************************)
(* Policy, parsePolicy, Policy.Check                                       *)
(***************************************************************************)
\* The zero Policy: &Policy{}.
ZeroPolicy == [Version |-> <<>>, Mode |-> <<>>, MXs |-> <<>>, MaxAge |-> I64Zero]

\* One pass of the scanner loop of parsePolicy: the policy after the line.
ParseLine(p, line) ==
    LET sp == SplitN2(line)
    IN  IF Len(sp) # 2 THEN p
        ELSE LET key   == TrimSpace(sp[1])
                 value == TrimSpace(sp[2])
             IN  CASE key = sVersion -> [p EXCEPT !.Version = value]
                   [] key = sMode    -> [p EXCEPT !.Mode = value]
                   [] key = sMaxAge  -> [p EXCEPT !.MaxAge = MulSecond(Atoi(value).val)]
                   [] key = sMx      -> [p EXCEPT !.MXs = Append(@, value)]
                   [] OTHER          -> p

RECURSIVE ParseLines(_, _)
ParseLines(p, lines) ==
    IF lines = <<>> THEN p ELSE ParseLines(ParseLine(p, Head(lines)), Tail(lines))

\* parsePolicy(raw): the scanner reads from memory, so scanner.Err() is nil
\* for every document whose lines fit the scanner's buffer.
parsePolicy(raw) == ParseLines(ZeroPolicy, ScanLines(raw))

\* 31557600 * time.Second, the largest max_age Check accepts.
MaxAgeLimitSeconds == 31557600

CheckVersion(p) == p.Version # sSTSv1

\* A variant of the max_age test of Check that lets a zero max_age through.
CheckMaxAge_ZeroAllowed(p) ==
    \/ I64Less(p.MaxAge, I64Zero)
    \/ I64Less(Seconds(MaxAgeLimitSeconds), p.MaxAge)

CheckMaxAge(p) ==
    \/ I64LessEq(p.MaxAge, I64Zero)
    \/ I64Less(Seconds(MaxAgeLimitSeconds), p.MaxAge)

CheckMode(p) == p.Mode # Enforce /\ p.Mode # Testing /\ p.Mode # None

CheckMXs(p) == Len(p.MXs) = 0

\* Policy.Check: "nil", or the error of the first condition that fails.
Check(p) ==
    IF CheckVersion(p) THEN "ErrUnknownVersion"
    ELSE IF CheckMaxAge(p) THEN "ErrInvalidMaxAge"
    ELSE IF CheckMode(p) THEN "ErrInvalidMode"
    ELSE IF CheckMXs(p) THEN "ErrInvalidMX"
    ELSE "nil"

(***************************************************************************)
(* The cache payload: encoding/json on a Policy                            *)
(***************************************************************************)
\* A nil pointer, and a pointer to v.
Nil == <<>>

Ptr(v) == <<v>>

RECURSIVE Reverse(_)
Reverse(s) == IF s = <<>> THEN <<>> ELSE Append(Reverse(Tail(s)), Head(s))

\* A variant of the encoding that writes the mx values last first.
Marshal_ReversedMx(p) ==
    [ok  |-> TRUE,
     obj |-> << <<"version", p.Version>>,
                <<"mode", p.Mode>>,
                <<"mx", IF p.MXs = <<>> THEN <<"null">> ELSE <<"array", Reverse(p.MXs)>> >>,
                <<"max_age", p.MaxAge>> >>]

\* json.Marshal(p): the object's members in the order of the struct's
\* fields, under the names of the json tags; a nil slice is written as null.
\* ok says the bytes are a JSON value at all.
Marshal(p) ==
    [ok  |-> TRUE,
     obj |-> << <<"version", p.Version>>,
                <<"mode", p.Mode>>,
                <<"mx", IF p.MXs = <<>> THEN <<"null">> ELSE <<"array", p.MXs>> >>,
                <<"max_age", p.MaxAge>> >>]

HasMember(obj, key) == \E i \in 1..Len(obj) : obj[i][1] = key

\* The last member of that name wins, as in encoding/json.
Member(obj, key) ==
    obj[CHOOSE i \in 1..Len(obj) :
            obj[i][1] = key /\ \A j \in (i + 1)..Len(obj) : obj[j][1] # key][2]

\* json.Unmarshal(data, p) into a zero Policy: members that are absent
\* leave their field zero, and bytes that are no JSON value are an error.
Unmarshal(data) ==
    IF ~data.ok THEN [err |-> "unmarshal", p |-> ZeroPolicy]
    ELSE LET o == data.obj
         IN  [err |-> "nil",
              p   |-> [Version |-> IF HasMember(o, "version") THEN Member(o, "version") ELSE <<>>,
                       Mode    |-> IF HasMember(o, "mode") THEN Member(o, "mode") ELSE <<>>,
                       MXs     |-> IF HasMember(o, "mx") /\ Member(o, "mx")[1] = "array"
                                   THEN Member(o, "mx")[2] ELSE <<>>,
                       MaxAge  |-> IF HasMember(o, "max_age") THEN Member(o, "max_age")
                                   ELSE I64Zero]]

\* Bytes that are no JSON value (a truncated or foreign file).
GarbageData == [ok |-> FALSE, obj |-> <<>>]

(***************************************************************************)
(* Policy documents and upstream replies                                   *)
(***************************************************************************)
\* One "key: value" line of a policy document.
Line(key, value) == key \o <<":", " ">> \o value \o <<"\n">>

RECURSIVE MxLines(_)
MxLines(mxs) == IF mxs = <<>> THEN <<>> ELSE Line(sMx, Head(mxs)) \o MxLines(Tail(mxs))

\* The document with the given version, mode, mx values and max_age text;
\* an age of <<"~">> stands for a document with no max_age line.
DocText(version, mode, mxs, age) ==
    Line(sVersion, version) \o Line(sMode, mode) \o MxLines(mxs)
        \o (IF age = <<"~">> THEN <<>> ELSE Line(sMaxAge, age))

mxA == <<"m", "x", ".", "a">>

mxWild == <<"*", ".", "b">>

\* Decimal texts of max_age values.
age0 == <<"0">>

age1 == <<"1">>

ageYear == <<"3", "1", "5", "5", "7", "6", "0", "0">>

ageYearPlus1 == <<"3", "1", "5", "5", "7", "6", "0", "1">>

\* 18446744074 = ceil(2^64 / 10^9): times 10^9 it wraps to 290448384 ns.
ageWrap == <<"1", "8", "4", "4", "6", "7", "4", "4", "0", "7", "4">>

\* 2^55 + 1: times 10^9 it wraps to exactly one second.
ageWrapSecond == <<"3", "6", "0", "2", "8", "7", "9", "7", "0", "1", "8", "9", "6", "3", "9", "6", "9">>

\* 2^63 - 1, the largest value Atoi decodes.
ageMaxInt == <<"9", "2", "2", "3", "3", "7", "2", "0", "3", "6", "8", "5", "4", "7", "7", "5", "8", "0", "7">>

\* 10^20 - 1 does not fit 64 bits.
ageTooLarge == <<"9", "9", "9", "9", "9", "9", "9", "9", "9", "9", "9", "9", "9", "9", "9", "9", "9", "9", "9", "9">>

ageNegative == <<"-", "5">>

ageNotANumber == <<"1", "d">>

\* The documents the upstream server answers with.
DocEnforce == DocText(sSTSv1, Enforce, <<mxA>>, age1)

DocTesting == DocText(sSTSv1, Testing, <<mxA, mxWild>>, ageYear)

DocZeroAge == DocText(sSTSv1, Enforce, <<mxA>>, age0)

\* What lookupTXT can return: an error, or the TXT values of the name.
DNSReplies ==
    { [err |-> "dns error", txts |-> <<>>],
      [err |-> "nil", txts |-> <<>>],
      [err |-> "nil", txts |-> << <<"v", "=", "S", "T", "S", "v", "1">> >>],
      [err |-> "nil", txts |-> << <<"v", "=", "s", "p", "f", "1">>, sTXTPrefix \o <<" ", "i", "d", "=", "1">> >>] }

\* A variant of hasSTSRecord that takes any answer without an error for a
\* record.
hasSTSRecord_AnyAnswer(reply) ==
    IF reply.err # "nil" THEN [ok |-> FALSE, err |-> reply.err]
    ELSE [ok |-> TRUE, err |-> "nil"]

\* hasSTSRecord, given what lookupTXT returned.
hasSTSRecord(reply) ==
    IF reply.err # "nil" THEN [ok |-> FALSE, err |-> reply.err]
    ELSE [ok  |-> \E i \in 1..Len(reply.txts) : HasPrefix(reply.txts[i], sTXTPrefix),
          err |-> "nil"]

ctPlain == <<"t", "e", "x", "t", "/", "p", "l", "a", "i", "n">>

ctPlainCharset == ctPlain \o <<";", " ", "c", "h", "a", "r", "s", "e", "t", "=", "u", "t", "f", "-", "8">>

ctHtml == <<"t", "e", "x", "t", "/", "h", "t", "m", "l">>

\* mime.ParseMediaType on the header values the model uses: the media type
\* is the text before the first ";", and a header without one is an error.
ParseMediaType(ct) ==
    LET i  == IndexOf(ct, ";")
        mt == TrimSpace(IF i = 0 THEN ct ELSE SubSeq(ct, 1, i - 1))
    IN  IF mt = <<>> THEN [mt |-> <<>>, err |-> "mime: no media type"]
        ELSE [mt |-> mt, err |-> "nil"]

\* What the HTTP client can come back with: a transport error, a redirect
\* (refused by rejectRedirect), or a response.
HTTPReplies ==
    { [kind |-> "error", status |-> 0, ctype |-> <<>>, body |-> <<>>],
      [kind |-> "redirect", status |-> 301, ctype |-> <<>>, body |-> <<>>],
      [kind |-> "response", status |-> 404, ctype |-> ctPlain, body |-> <<>>],
      [kind |-> "response", status |-> 200, ctype |-> ctHtml, body |-> DocEnforce],
      [kind |-> "response", status |-> 200, ctype |-> <<>>, body |-> DocEnforce],
      [kind |-> "response", status |-> 200, ctype |-> ctPlain, body |-> DocEnforce],
      [kind |-> "response", status |-> 200, ctype |-> ctPlainCharset, body |-> DocTesting],
      [kind |-> "response", status |-> 200, ctype |-> ctPlain, body |-> DocZeroAge] }

\* The cap on the bytes read from the response body.
BodyLimit == 10 * 1024

\* io.ReadAll of the LimitedReader: the first BodyLimit bytes of the body.
LimitedRead(body) ==
    IF Len(body) > BodyLimit THEN SubSeq(body, 1, BodyLimit) ELSE body

\* httpGet, given what the client came back with.
httpGet(reply) ==
    IF reply.kind = "error" THEN [err |-> "http transport error", raw |-> <<>>]
    ELSE IF reply.kind = "redirect"
         THEN [err |-> "redirects not allowed in MTA-STS", raw |-> <<>>]
    ELSE IF reply.status # 200 THEN [err |-> "HTTP response status code", raw |-> <<>>]
    ELSE LET m == ParseMediaType(reply.ctype)
         IN  IF m.err # "nil" THEN [err |-> "HTTP media type error", raw |-> <<>>]
             ELSE IF m.mt # ctPlain THEN [err |-> "ErrInvalidMediaType", raw |-> <<>>]
             ELSE [err |-> "nil", raw |-> LimitedRead(reply.body)]

\* UncheckedFetch in place of Fetch: the policy is not checked.
FetchChecks_Unchecked(p) == "nil"

\* The tail of UncheckedFetch and of Fetch once the document is read:
\* parse it, and in Fetch check it.
FetchChecks(p) == Check(p)

ParseAndCheck(raw) ==
    LET p == parsePolicy(raw)
        e == FetchChecks(p)
    IN  IF e # "nil" THEN [p |-> Nil, err |-> e] ELSE [p |-> Ptr(p), err |-> "nil"]

\* idna.ToASCII (the raw Punycode profile) on the names the model uses,
\* label by label: an ASCII label is returned as it is, the label "ü" is
\* encoded as "xn--tda", and an A-label ("xn--") whose Punycode does not
\* decode is an error. Empty labels are let through.
sBadALabel == <<"x", "n", "-", "-", "0">>

sUmlaut == <<"ü">>

sUmlautALabel == <<"x", "n", "-", "-", "t", "d", "a">>

\* The labels of a name: the texts between its dots.
RECURSIVE Labels(_)
Labels(s) ==
    LET i == IndexOf(s, ".")
    IN  IF i = 0 THEN <<s>>
        ELSE <<SubSeq(s, 1, i - 1)>> \o Labels(SubSeq(s, i + 1, Len(s)))

RECURSIVE JoinLabels(_)
JoinLabels(ls) ==
    IF Len(ls) = 1 THEN ls[1] ELSE ls[1] \o <<".">> \o JoinLabels(Tail(ls))

idnaLabel(l) == IF l = sUmlaut THEN sUmlautALabel ELSE l

idnaToASCII(domain) ==
    LET ls == Labels(domain)
    IN  IF \E i \in 1..Len(ls) : ls[i] = sBadALabel
        THEN [val |-> <<>>, err |-> "idna: invalid label"]
        ELSE [val |-> JoinLabels([i \in 1..Len(ls) |-> idnaLabel(ls[i])]), err |-> "nil"]

\* strings.ToLower on the letters the model uses.
ToLowerChar(ch) ==
    CASE ch = "A" -> "a"
      [] ch = "B" -> "b"
      [] ch = "Ü" -> "ü"
      [] OTHER -> ch

ToLower(s) == [i \in 1..Len(s) |-> ToLowerChar(s[i])]

\* strings.TrimSuffix(s, ".")
TrimSuffixDot(s) ==
    IF s # <<>> /\ s[Len(s)] = "." THEN SubSeq(s, 1, Len(s) - 1) ELSE s

\* domainToASCII: trailing dot off, lower case, idna.ToASCII.
domainToASCII(domain) == idnaToASCII(ToLower(TrimSuffixDot(domain)))

\* strings.SplitN(s, ".", 2)
SplitNDot2(s) ==
    LET i == IndexOf(s, ".")
    IN  IF i = 0 THEN <<s>>
        ELSE <<SubSeq(s, 1, i - 1), SubSeq(s, i + 1, Len(s))>>

sWildcard == <<"*", ".">>

\* A variant of matchDomain whose wildcard stands for one or more labels.
matchDomain_AnyDepth(domain, pattern) ==
    LET d == domainToASCII(domain)
        t == domainToASCII(pattern)
    IN  IF d.err # "nil" \/ t.err # "nil" THEN FALSE
        ELSE IF d.val = t.val THEN TRUE
        ELSE /\ HasPrefix(t.val, sWildcard)
             /\ \E i \in 1..Len(d.val) :
                    /\ d.val[i] = "."
                    /\ SubSeq(d.val, i + 1, Len(d.val)) = SubSeq(t.val, 3, Len(t.val))

\* matchDomain
matchDomain(domain, pattern) ==
    LET d == domainToASCII(domain)
        t == domainToASCII(pattern)
    IN  IF d.err # "nil" \/ t.err # "nil" THEN FALSE
        ELSE IF d.val = t.val THEN TRUE
        ELSE IF HasPrefix(t.val, sWildcard)
             THEN LET parts == SplitNDot2(d.val)
                  IN  Len(parts) > 1 /\ parts[2] = SubSeq(t.val, 3, Len(t.val))
        ELSE FALSE

\* Policy.MXIsAllowed
MXIsAllowed(p, mx) ==
    IF p.Mode # Enforce THEN TRUE
    ELSE \E i \in 1..Len(p.MXs) : matchDomain(mx, p.MXs[i])

\* A variant of domainPath's sanity check that lets every domain through.
domainPathPanics_Never(domain) == FALSE

\* PolicyCache.domainPath panics on a domain that contains a slash.
domainPathPanics(domain) == Contains(domain, "/")

\* PolicyCache.domainPath: the file's name under the cache directory.
domainPath(domain) == pathPrefix \o domain

(***************************************************************************)
(* The state                                                               *)
(***************************************************************************)
VARIABLES
    clock,      \* the wall clock: nanoseconds since the model's start
    ticks,      \* how many times the clock has advanced
    files,      \* the cache directory: file name -> [data, mtime]
    lastStore,  \* file name -> the policy of the store that last renamed onto it
    counters,   \* the exported counters
    proc,       \* each activity's position, locals and record of its call
    rf,         \* the refresher's loop: directory listing, index, sleep
    rootCtx,    \* the context PeriodicallyRefresh was given
    calls,      \* PolicyCache.Fetch calls made so far
    pin,        \* parser check: the document's fields
    pst,        \* parser check: "raw", "parsed" or "checked"
    pout        \* parser check: the parsed policy and the result of Check

vars == <<clock, ticks, files, lastStore, counters, proc, rf, rootCtx, calls, pin, pst, pout>>

cacheVars == <<clock, ticks, files, lastStore, counters, proc, rf, rootCtx, calls>>

parseVars == <<pin, pst, pout>>

\* Bounds of the model.
MaxCalls == 2

MaxPasses == 1

MaxTicks == 1

Callers == {"c1"}

Refresher == "refresher"

\* The callers of the runs with two of them at once.
Peers == {"c1", "c2"}

Procs == Callers \cup Peers \cup {Refresher}

dA == <<"a">>

dB == <<"b">>

\* The domains callers ask for.
Domains == {dA, sBadALabel}

\* A file in the directory that is not the cache's.
strayName == <<".", "x">>

CounterNames ==
    {"fetches", "hits", "expired", "ioErrors", "failedFetch", "invalid",
     "marshalErrors", "unmarshalErrors", "refreshCycles", "refreshes",
     "refreshErrors"}

ZeroCounters == [n \in CounterNames |-> 0]

\* The policies of the two valid documents.
PolEnforce == parsePolicy(DocEnforce)

PolTesting == parsePolicy(DocTesting)

File(data, mtime) == [data |-> data, mtime |-> mtime]

StrayFile == File(GarbageData, I64Zero)

\* Directories the cache can be constructed on: empty but for a stray
\* file; an entry that expires one second from now; an expired and a fresh
\* entry; an undecodable entry beside a fresh one; an entry holding a
\* policy that Check refuses.
InitDirs ==
    { (strayName :> StrayFile),
      (strayName :> StrayFile) @@
          (domainPath(dA) :> File(Marshal(PolEnforce), Seconds(1))),
      (domainPath(dA) :> File(Marshal(PolEnforce), I64Neg(Seconds(1)))) @@
          (domainPath(dB) :> File(Marshal(PolTesting), Seconds(600))),
      (domainPath(dA) :> File(GarbageData, Seconds(600))) @@
          (domainPath(dB) :> File(Marshal(PolTesting), Seconds(600))),
      (strayName :> StrayFile) @@
          (domainPath(dA) :> File(Marshal([PolEnforce EXCEPT !.Mode = <<>>]), Seconds(600))) }

\* An activity that is not in a call. The fields up to retErr are the
\* code's own: the domain, the context, the policy in hand, the expiry
\* store computed, and what PolicyCache.Fetch returned. The others record
\* what the current call (or the refresher's current entry) has done:
\*   ctx0              the context's state when the call was made
\*   t0, held, dir0    the clock, the entry (if any) and the directory then
\*   seen              the payload load has read
\*   heldLast,         the policy of the store that had last renamed onto the
\*   seenLast          entry, if any had, when load looked at the entry and
\*                     when it read it
\*   dnsSeen           what lookupTXT returned
\*   tStore            the clock when store was called
\*   loadErr           the error load returned
\*   nUp               calls of Fetch
\*   nDNS, nHTTP       network operations that have completed
\*   lateNet           those that completed with the context already done
\*   nWrites           changes made to the directory
\*   fetchErr          the error Fetch returned
\*   storeErr          "none" before store is called, "pending" during it,
\*                     then the error it returned
\*   inc               how often the call advanced each counter
IdleProc ==
    [pc |-> "idle", domain |-> <<>>, ctx |-> "live", deadline |-> I64Zero,
     p |-> Nil, expires |-> I64Zero, retP |-> Nil, retErr |-> "nil",
     ctx0 |-> "live", t0 |-> I64Zero, held |-> Nil, dir0 |-> Nil, seen |-> Nil,
     heldLast |-> Nil, seenLast |-> Nil, dnsSeen |-> Nil, tStore |-> I64Zero,
     loadErr |-> "nil", nUp |-> 0, nDNS |-> 0, nHTTP |-> 0, lateNet |-> 0,
     nWrites |-> 0, fetchErr |-> "nil", storeErr |-> "none",
     inc |-> ZeroCounters]

IdleRf ==
    [entries |-> <<>>, idx |-> 0, sleepUntil |-> I64Zero, passes |-> 0, log |-> <<>>,
     count0 |-> ZeroCounters]

NoParse == [p |-> ZeroPolicy, err |-> "nil"]

IdleParse == [version |-> <<>>, mode |-> <<>>, mxs |-> <<>>, age |-> <<>>]

\* NewCache, and PeriodicallyRefresh about to be started by main.
Init ==
    /\ clock = I64Zero
    /\ ticks = 0
    /\ files \in InitDirs
    /\ lastStore = <<>>
    /\ counters = ZeroCounters
    /\ proc = [q \in Procs |-> IF q = Refresher THEN [IdleProc EXCEPT !.pc = "start"] ELSE IdleProc]
    /\ rf = IdleRf
    /\ rootCtx = "live"
    /\ calls = 0
    /\ pin = IdleParse
    /\ pst = "off"
    /\ pout = NoParse

(***************************************************************************)
(* Steps shared by PolicyCache.Fetch and PolicyCache.refresh               *)
(***************************************************************************)
\* A step's outcome: the activity's new record and the counters to advance.
Step(r) == [r |-> r, incs |-> <<>>]

\* expvar Add(1) on a counter.
Bump(sr, name) ==
    [r |-> [sr.r EXCEPT !.inc[name] = @ + 1], incs |-> Append(sr.incs, name)]

RECURSIVE BumpAll(_, _)
BumpAll(cs, names) ==
    IF names = <<>> THEN cs
    ELSE BumpAll([cs EXCEPT ![Head(names)] = @ + 1], Tail(names))

Apply(q, sr) ==
    /\ proc' = [proc EXCEPT ![q] = sr.r]
    /\ counters' = BumpAll(counters, sr.incs)

\* ctx.Err() != nil for the context of q's fetch: the caller's own context,
\* or the refresher's per-domain context, derived from the root context
\* with a deadline.
CtxDone(q) ==
    IF q = Refresher
    THEN rootCtx = "canceled" \/ I64LessEq(proc[q].deadline, clock)
    ELSE proc[q].ctx = "canceled"

CtxErr(q) ==
    IF q = Refresher /\ rootCtx # "canceled" THEN "context deadline exceeded"
    ELSE "context canceled"

\* Two variants of the failure path of PolicyCache.Fetch: one returns the
\* error load had returned in place of the one Fetch returned, the other
\* does not count the failure.
CallerFetchFailed_LoadErr(sr) ==
    Bump([sr EXCEPT !.r = [sr.r EXCEPT !.pc = "done", !.retP = Nil,
                                       !.retErr = sr.r.loadErr]],
         "failedFetch")

CallerFetchFailed_Uncounted(sr) ==
    [sr EXCEPT !.r = [sr.r EXCEPT !.pc = "done", !.retP = Nil,
                                  !.retErr = sr.r.fetchErr]]

\* PolicyCache.Fetch when Fetch returned the error sr.r.fetchErr: count it
\* and return it with a nil policy.
CallerFetchFailed(sr) ==
    Bump([sr EXCEPT !.r = [sr.r EXCEPT !.pc = "done", !.retP = Nil,
                                       !.retErr = sr.r.fetchErr]],
         "failedFetch")

\* A variant of refresh that counts a failed fetch twice.
RefreshFetchFailed_CountedTwice(sr) ==
    Bump(Bump([sr EXCEPT !.r = [sr.r EXCEPT !.pc = "iter"]], "refreshErrors"), "refreshErrors")

\* PolicyCache.refresh when Fetch returned an error: count it and continue
\* with the next entry.
RefreshFetchFailed(sr) ==
    Bump([sr EXCEPT !.r = [sr.r EXCEPT !.pc = "iter"]], "refreshErrors")

\* Fetch returns the error e to the one that called it.
FetchFailed(q, sr, e) ==
    LET s1 == [sr EXCEPT !.r = [sr.r EXCEPT !.fetchErr = e]]
    IN  IF q = Refresher THEN RefreshFetchFailed(s1) ELSE CallerFetchFailed(s1)

\* Fetch and UncheckedFetch up to the call of lookupTXT, which takes no
\* context.
StartFetch(q, sr) ==
    LET a  == idnaToASCII(sr.r.domain)
        s1 == [sr EXCEPT !.r = [sr.r EXCEPT !.nUp = @ + 1]]
    IN  IF a.err # "nil" THEN FetchFailed(q, s1, a.err)
        ELSE [s1 EXCEPT !.r = [s1.r EXCEPT !.pc = "dns"]]

\* Two variants of store's expiry instant: the instant of the store itself,
\* and the old entry's expiry advanced by the policy's max_age.
StartStore_ExpiresNow(sr, p, now) ==
    [sr EXCEPT !.r = [sr.r EXCEPT !.pc = "write", !.p = Ptr(p), !.tStore = now,
                                  !.expires = now,
                                  !.storeErr = "pending"]]

StartStore_FromOldExpiry(sr, p, now) ==
    [sr EXCEPT !.r = [sr.r EXCEPT !.pc = "write", !.p = Ptr(p), !.tStore = now,
                                  !.expires = I64Add(IF sr.r.held = Nil THEN now
                                                     ELSE sr.r.held[1].mtime, p.MaxAge),
                                  !.storeErr = "pending"]]

\* PolicyCache.store up to the call of safeio.WriteFile: marshal the policy
\* (which cannot fail for a Policy) and compute the expiry instant.
StartStore(sr, p, now) ==
    [sr EXCEPT !.r = [sr.r EXCEPT !.pc = "write", !.p = Ptr(p), !.tStore = now,
                                  !.expires = I64Add(now, p.MaxAge),
                                  !.storeErr = "pending"]]

\* A variant of PolicyCache.Fetch that returns the error of store.
CallerStoreReturned_Surfaced(sr, serr) ==
    [sr EXCEPT !.r = [sr.r EXCEPT !.pc = "done", !.storeErr = serr,
                                  !.retP = IF serr = "nil" THEN sr.r.p ELSE Nil,
                                  !.retErr = serr]]

\* A variant of PolicyCache.Fetch that returns, after store, the policy the
\* entry holds rather than the one it fetched.
CallerStoreReturned_ReadBack(sr, serr) ==
    LET name == domainPath(sr.r.domain)
    IN  [sr EXCEPT !.r = [sr.r EXCEPT
                              !.pc = "done", !.storeErr = serr,
                              !.retP = IF name \in DOMAIN files
                                       THEN Ptr(Unmarshal(files[name].data).p)
                                       ELSE sr.r.p,
                              !.retErr = "nil"]]

\* The return of store to PolicyCache.Fetch, which passes the policy on
\* whatever store returned, and to PolicyCache.refresh, which goes on.
CallerStoreReturned(sr, serr) ==
    [sr EXCEPT !.r = [sr.r EXCEPT !.pc = "done", !.storeErr = serr,
                                  !.retP = sr.r.p, !.retErr = "nil"]]

RefreshStoreReturned(sr, serr) ==
    [sr EXCEPT !.r = [sr.r EXCEPT !.pc = "iter", !.storeErr = serr]]

StoreReturned(q, sr, serr) ==
    IF q = Refresher THEN RefreshStoreReturned(sr, serr)
    ELSE CallerStoreReturned(sr, serr)

\* lookupTXT returns: hasSTSRecord, and in UncheckedFetch the call of
\* httpGet, which returns at once when the context is already done.
DnsReply(q, reply) ==
    /\ proc[q].pc = "dns"
    /\ LET r1 == [proc[q] EXCEPT !.nDNS = @ + 1, !.dnsSeen = Ptr(reply),
                                 !.lateNet = @ + (IF CtxDone(q) THEN 1 ELSE 0)]
           h  == hasSTSRecord(reply)
       IN  Apply(q, IF h.err # "nil" THEN FetchFailed(q, Step(r1), h.err)
                    ELSE IF ~h.ok THEN FetchFailed(q, Step(r1), "MTA-STS TXT record missing")
                    ELSE IF CtxDone(q) THEN FetchFailed(q, Step(r1), CtxErr(q))
                    ELSE Step([r1 EXCEPT !.pc = "http"]))
    /\ UNCHANGED <<clock, ticks, files, lastStore, rf, rootCtx, calls, parseVars>>

\* The HTTP client returns while the context is live: the rest of httpGet,
\* parsePolicy, Check, and store up to the write.
HttpReply(q, reply) ==
    /\ proc[q].pc = "http"
    /\ ~CtxDone(q)
    /\ LET r1 == [proc[q] EXCEPT !.nHTTP = @ + 1]
           g  == httpGet(reply)
           f  == ParseAndCheck(g.raw)
       IN  Apply(q, IF g.err # "nil" THEN FetchFailed(q, Step(r1), g.err)
                    ELSE IF f.err # "nil" THEN FetchFailed(q, Step(r1), f.err)
                    ELSE StartStore(Step(r1), f.p[1], clock))
    /\ UNCHANGED <<clock, ticks, files, lastStore, rf, rootCtx, calls, parseVars>>

\* The context is done while the request is in flight: ctxhttp.Get returns
\* the context's error.
HttpAbort(q) ==
    /\ proc[q].pc = "http"
    /\ CtxDone(q)
    /\ Apply(q, FetchFailed(q, Step(proc[q]), CtxErr(q)))
    /\ UNCHANGED <<clock, ticks, files, lastStore, rf, rootCtx, calls, parseVars>>

\* A write that works on the entry in place: over an entry
\* that holds other data it leaves a mix of the old bytes and the new, which
\* does not decode.
WriteFileRename_InPlace(name, data, now) ==
    files' = [n \in DOMAIN files \cup {name} |->
                 IF n # name THEN files[n]
                 ELSE IF name \in DOMAIN files /\ files[name].data # data
                      THEN File(GarbageData, now)
                 ELSE File(data, now)]

\* A write that prunes the directory as it goes: entries
\* that have expired by then are removed.
WriteFileRename_Pruning(name, data, now) ==
    files' = [n \in {name} \cup {m \in DOMAIN files : ~I64Less(files[m].mtime, now)} |->
                 IF n = name THEN File(data, now) ELSE files[n]]

\* safeio.WriteFile, first half: the payload is written to a temporary
\* file, which is renamed onto the entry; or the write fails and the entry
\* stays as it was.
WriteFileRename(name, data, now) ==
    files' = [n \in DOMAIN files \cup {name} |->
                 IF n = name THEN File(data, now) ELSE files[n]]

\* Two variants of store: one that writes the entry in place, one that
\* prunes the directory as it writes.
StoreWrite_InPlace(q, fail) ==
    /\ proc[q].pc = "write"
    /\ IF fail
       THEN /\ Apply(q, StoreReturned(q, Bump(Step(proc[q]), "ioErrors"), "io error"))
            /\ UNCHANGED <<files, lastStore>>
       ELSE /\ WriteFileRename_InPlace(domainPath(proc[q].domain), Marshal(proc[q].p[1]), clock)
            /\ lastStore' = [n \in DOMAIN lastStore \cup {domainPath(proc[q].domain)} |->
                                 IF n = domainPath(proc[q].domain) THEN proc[q].p
                                 ELSE lastStore[n]]
            /\ Apply(q, Step([proc[q] EXCEPT !.pc = "chtimes", !.nWrites = @ + 1]))
    /\ UNCHANGED <<clock, ticks, rf, rootCtx, calls, parseVars>>

StoreWrite_Pruning(q, fail) ==
    /\ proc[q].pc = "write"
    /\ IF fail
       THEN /\ Apply(q, StoreReturned(q, Bump(Step(proc[q]), "ioErrors"), "io error"))
            /\ UNCHANGED <<files, lastStore>>
       ELSE /\ WriteFileRename_Pruning(domainPath(proc[q].domain), Marshal(proc[q].p[1]), clock)
            /\ lastStore' = [n \in DOMAIN lastStore \cup {domainPath(proc[q].domain)} |->
                                 IF n = domainPath(proc[q].domain) THEN proc[q].p
                                 ELSE lastStore[n]]
            /\ Apply(q, Step([proc[q] EXCEPT !.pc = "chtimes", !.nWrites = @ + 1]))
    /\ UNCHANGED <<clock, ticks, rf, rootCtx, calls, parseVars>>

StoreWrite(q, fail) ==
    /\ proc[q].pc = "write"
    /\ IF fail
       THEN /\ Apply(q, StoreReturned(q, Bump(Step(proc[q]), "ioErrors"), "io error"))
            /\ UNCHANGED <<files, lastStore>>
       ELSE /\ WriteFileRename(domainPath(proc[q].domain), Marshal(proc[q].p[1]), clock)
            /\ lastStore' = [n \in DOMAIN lastStore \cup {domainPath(proc[q].domain)} |->
                                 IF n = domainPath(proc[q].domain) THEN proc[q].p
                                 ELSE lastStore[n]]
            /\ Apply(q, Step([proc[q] EXCEPT !.pc = "chtimes", !.nWrites = @ + 1]))
    /\ UNCHANGED <<clock, ticks, rf, rootCtx, calls, parseVars>>

\* safeio.WriteFile, second half: chTime sets the entry's atime and mtime
\* to the expiry instant; or it fails.
WriteFileChtimes(name, expires) ==
    files' = [files EXCEPT ![name].mtime = expires]

StoreChtimes(q, fail) ==
    /\ proc[q].pc = "chtimes"
    /\ IF fail
       THEN /\ Apply(q, StoreReturned(q, Bump(Step(proc[q]), "ioErrors"), "io error"))
            /\ UNCHANGED <<files, lastStore>>
       ELSE /\ WriteFileChtimes(domainPath(proc[q].domain), proc[q].expires)
            /\ UNCHANGED lastStore
            /\ Apply(q, StoreReturned(q, Step([proc[q] EXCEPT !.nWrites = @ + 1]), "nil"))
    /\ UNCHANGED <<clock, ticks, rf, rootCtx, calls, parseVars>>

(***************************************************************************)
(* PolicyCache.load and PolicyCache.Fetch                                  *)
(***************************************************************************)
\* A variant of the expiry test that takes the expiry instant itself for
\* expired: time.Since(fi.ModTime()) >= 0.
Expired_AtInstant(mtime, now) == I64LessEq(I64Zero, I64Sub(now, mtime))

\* load's expiry test: time.Since(fi.ModTime()) > 0.
Expired(mtime, now) == I64Less(I64Zero, I64Sub(now, mtime))

\* A variant of load with the test of the check's result inverted.
LoadChecks_Inverted(p) == IF Check(p) = "nil" THEN "ErrInvalid" ELSE "nil"

\* load's check of the policy it decoded.
LoadChecks(p) == Check(p)

\* load fails: PolicyCache.Fetch goes on to Fetch.
LoadFailed(q, sr, e) == StartFetch(q, [sr EXCEPT !.r = [sr.r EXCEPT !.loadErr = e]])

\* PolicyCache.Fetch(ctx, d) up to the return of os.Stat in load and the
\* expiry test that follows it. statErr: os.Stat fails for another reason
\* than the file being absent.
CallFetch(c, d, cx, statErr) ==
    /\ proc[c].pc = "idle"
    /\ calls < MaxCalls
    /\ calls' = calls + 1
    /\ LET name == domainPath(d)
           s0   == Bump(Step([IdleProc EXCEPT
                                 !.domain = d, !.ctx = cx, !.ctx0 = cx, !.t0 = clock,
                                 !.dir0 = Ptr(files),
                                 !.held = IF name \in DOMAIN files THEN Ptr(files[name])
                                          ELSE Nil,
                                 !.heldLast = IF name \in DOMAIN lastStore
                                              THEN lastStore[name] ELSE Nil]),
                        "fetches")
       IN  Apply(c,
                 IF domainPathPanics(d)
                 THEN Bump(Step([IdleProc EXCEPT !.pc = "panicked", !.domain = d, !.ctx = cx,
                                                 !.ctx0 = cx, !.t0 = clock]),
                           "fetches")
                 ELSE IF name \notin DOMAIN files THEN LoadFailed(c, s0, "file does not exist")
                 ELSE IF statErr THEN LoadFailed(c, s0, "stat io error")
                 ELSE IF Expired(files[name].mtime, clock)
                      THEN LoadFailed(c, Bump(s0, "expired"), "cache entry expired")
                 ELSE [s0 EXCEPT !.r = [s0.r EXCEPT !.pc = "read"]])
    /\ UNCHANGED <<clock, ticks, files, lastStore, rf, rootCtx, parseVars>>

\* The rest of load, from os.ReadFile on, and the cache hit of
\* PolicyCache.Fetch. readErr: os.ReadFile fails.
LoadRead(c, readErr) ==
    /\ proc[c].pc = "read"
    /\ LET name == domainPath(proc[c].domain)
           s0   == Step(proc[c])
           data == files[name].data
           u    == Unmarshal(data)
           s1   == [s0 EXCEPT !.r = [s0.r EXCEPT
                                     !.seen = Ptr(data),
                                     !.seenLast = IF name \in DOMAIN lastStore
                                                  THEN lastStore[name] ELSE Nil]]
       IN  Apply(c,
                 IF readErr \/ name \notin DOMAIN files
                 THEN LoadFailed(c, Bump(s0, "ioErrors"), "read io error")
                 ELSE IF u.err # "nil"
                      THEN LoadFailed(c, Bump(s1, "unmarshalErrors"), "unmarshal error")
                 ELSE IF LoadChecks(u.p) # "nil"
                      THEN LoadFailed(c, Bump(s1, "invalid"), "unmarshalled invalid policy")
                 ELSE Bump([s1 EXCEPT !.r = [s1.r EXCEPT !.pc = "done", !.p = Ptr(u.p),
                                                         !.retP = Ptr(u.p),
                                                         !.retErr = "nil"]],
                           "hits"))
    /\ UNCHANGED <<clock, ticks, files, lastStore, rf, rootCtx, calls, parseVars>>

\* The caller takes what PolicyCache.Fetch returned.
Return(c) ==
    /\ proc[c].pc = "done"
    /\ proc' = [proc EXCEPT ![c] = IdleProc]
    /\ UNCHANGED <<clock, ticks, files, lastStore, counters, rf, rootCtx, calls, parseVars>>

\* The caller cancels the context it gave to PolicyCache.Fetch, while the
\* fetch is at a point where the context is still looked at.
CancelCall(c) ==
    /\ proc[c].pc \in {"dns", "http"}
    /\ proc[c].ctx = "live"
    /\ proc' = [proc EXCEPT ![c].ctx = "canceled"]
    /\ UNCHANGED <<clock, ticks, files, lastStore, counters, rf, rootCtx, calls, parseVars>>

(***************************************************************************)
(* PolicyCache.PeriodicallyRefresh and PolicyCache.refresh                 *)
(***************************************************************************)
\* The byte order of the characters of file names.
Alphabet == <<"-", ".", "0", ":", "a", "b", "l", "n", "o", "p", "x">>

Rank(ch) == CHOOSE i \in 1..Len(Alphabet) : Alphabet[i] = ch

RECURSIVE LexLess(_, _)
LexLess(s, t) ==
    IF t = <<>> THEN FALSE
    ELSE IF s = <<>> THEN TRUE
    ELSE IF s[1] # t[1] THEN Rank(s[1]) < Rank(t[1])
    ELSE LexLess(Tail(s), Tail(t))

\* os.ReadDir: the names in the directory, sorted by name.
RECURSIVE SortNames(_)
SortNames(S) ==
    IF S = {} THEN <<>>
    ELSE LET m == CHOOSE x \in S : \A y \in S \ {x} : LexLess(x, y)
         IN  <<m>> \o SortNames(S \ {m})

ReadDir == SortNames(DOMAIN files)

\* The sleep between two passes.
SleepSeconds == 600

\* The deadline of the context of one entry's fetch.
FetchTimeoutSeconds == 30

\* What the refresher did with the entry it has just finished.
ItemDone(r) ==
    [domain |-> r.domain, failed |-> r.fetchErr # "nil", nWrites |-> r.nWrites,
     nUp |-> r.nUp, expired |-> Expired(r.held[1].mtime, r.t0)]

\* A variant of the loop of refresh that takes every entry of the listing,
\* whatever its name.
NextEntry_AnyName(entries, idx) == IF idx < Len(entries) THEN idx + 1 ELSE 0

\* The index of the next entry after idx whose name starts with "pol:", or
\* 0 when there is none.
NextEntry(entries, idx) ==
    IF \E j \in (idx + 1)..Len(entries) : HasPrefix(entries[j], pathPrefix)
    THEN CHOOSE j \in (idx + 1)..Len(entries) :
             /\ HasPrefix(entries[j], pathPrefix)
             /\ \A k \in (idx + 1)..(j - 1) : ~HasPrefix(entries[k], pathPrefix)
    ELSE 0

\* The loop condition of PeriodicallyRefresh.
LoopGoesOn == rootCtx # "canceled"

\* PeriodicallyRefresh tests its context; when it is live, refresh lists
\* the directory. readDirErr: os.ReadDir fails, refresh returns, and
\* PeriodicallyRefresh counts the cycle and sleeps.
RfPassStart(readDirErr) ==
    /\ proc[Refresher].pc = "start"
    /\ \/ /\ ~LoopGoesOn
          /\ ~readDirErr
          /\ Apply(Refresher, Step([proc[Refresher] EXCEPT !.pc = "exited"]))
          /\ UNCHANGED rf
       \/ /\ LoopGoesOn
          /\ rf.passes < MaxPasses
          /\ readDirErr
          /\ Apply(Refresher, Bump(Step([proc[Refresher] EXCEPT !.pc = "sleep"]), "refreshCycles"))
          /\ rf' = [rf EXCEPT !.passes = @ + 1, !.entries = <<>>, !.idx = 0, !.log = <<>>,
                              !.count0 = counters,
                              !.sleepUntil = I64Add(clock, Seconds(SleepSeconds))]
       \/ /\ LoopGoesOn
          /\ rf.passes < MaxPasses
          /\ ~readDirErr
          /\ Apply(Refresher, Step([IdleProc EXCEPT !.pc = "iter"]))
          /\ rf' = [rf EXCEPT !.passes = @ + 1, !.entries = ReadDir, !.idx = 0, !.log = <<>>,
                              !.count0 = counters]
    /\ UNCHANGED <<clock, ticks, files, lastStore, rootCtx, calls, parseVars>>

\* A variant of the loop of refresh that leaves the loop at the first
\* entry whose fetch failed (break in place of continue).
TakesEntry_StopsOnFailure(j) == j # 0 /\ proc[Refresher].fetchErr = "nil"

\* Whether the loop over the entries goes on to the entry at j.
TakesEntry(j) == j # 0

\* The loop of refresh moves on: past the entries without the prefix to the
\* next one with it, whose fetch it starts; or, at the end of the listing,
\* refresh returns, and PeriodicallyRefresh counts the cycle and sleeps.
RfNextItem ==
    /\ proc[Refresher].pc = "iter"
    /\ LET j   == NextEntry(rf.entries, rf.idx)
           log == IF rf.idx = 0 THEN rf.log ELSE Append(rf.log, ItemDone(proc[Refresher]))
       IN  \/ /\ ~TakesEntry(j)
              /\ Apply(Refresher, Bump(Step([IdleProc EXCEPT !.pc = "sleep"]), "refreshCycles"))
              /\ rf' = [rf EXCEPT !.log = log, !.idx = Len(rf.entries) + 1,
                                  !.sleepUntil = I64Add(clock, Seconds(SleepSeconds))]
           \/ /\ TakesEntry(j)
              /\ LET d  == SubSeq(rf.entries[j], Len(pathPrefix) + 1, Len(rf.entries[j]))
                     r0 == [IdleProc EXCEPT !.domain = d, !.ctx0 = rootCtx, !.t0 = clock,
                                !.dir0 = Ptr(files), !.held = Ptr(files[rf.entries[j]]),
                                !.deadline = I64Add(clock, Seconds(FetchTimeoutSeconds))]
                 IN  Apply(Refresher, StartFetch(Refresher, Bump(Step(r0), "refreshes")))
              /\ rf' = [rf EXCEPT !.log = log, !.idx = j]
    /\ UNCHANGED <<clock, ticks, files, lastStore, rootCtx, calls, parseVars>>

\* time.Sleep returns once the ten minutes have passed.
RfWake ==
    /\ proc[Refresher].pc = "sleep"
    /\ I64LessEq(rf.sleepUntil, clock)
    /\ Apply(Refresher, Step([proc[Refresher] EXCEPT !.pc = "start"]))
    /\ UNCHANGED <<clock, ticks, files, lastStore, rf, rootCtx, calls, parseVars>>

\* The root context is canceled.
CancelRoot ==
    /\ rootCtx = "live"
    /\ rootCtx' = "canceled"
    /\ UNCHANGED <<clock, ticks, files, lastStore, counters, proc, rf, calls, parseVars>>

\* Time passes.
TickDeltas == {Seconds(1), Seconds(SleepSeconds)}

Tick(delta) ==
    /\ ticks < MaxTicks
    /\ ticks' = ticks + 1
    /\ clock' = I64Add(clock, delta)
    /\ UNCHANGED <<files, lastStore, counters, proc, rf, rootCtx, calls, parseVars>>

\* The callers of PolicyCache.Fetch, and time.
NextFetch ==
    \/ \E c \in Callers, d \in Domains, cx \in {"live", "canceled"}, e \in BOOLEAN :
           CallFetch(c, d, cx, e)
    \/ \E c \in Callers, e \in BOOLEAN : LoadRead(c, e)
    \/ \E c \in Callers : Return(c)
    \/ \E c \in Callers : CancelCall(c)
    \/ \E c \in Callers, reply \in DNSReplies : DnsReply(c, reply)
    \/ \E c \in Callers, reply \in HTTPReplies : HttpReply(c, reply)
    \/ \E c \in Callers : HttpAbort(c)
    \/ \E c \in Callers, fail \in BOOLEAN : StoreWrite(c, fail)
    \/ \E c \in Callers, fail \in BOOLEAN : StoreChtimes(c, fail)
    \/ \E delta \in TickDeltas : Tick(delta)

\* The refresher, its root context, and time.
NextRefresh ==
    \/ \E e \in BOOLEAN : RfPassStart(e)
    \/ RfNextItem
    \/ RfWake
    \/ CancelRoot
    \/ \E reply \in DNSReplies : DnsReply(Refresher, reply)
    \/ \E reply \in HTTPReplies : HttpReply(Refresher, reply)
    \/ HttpAbort(Refresher)
    \/ \E fail \in BOOLEAN : StoreWrite(Refresher, fail)
    \/ \E fail \in BOOLEAN : StoreChtimes(Refresher, fail)
    \/ \E delta \in TickDeltas : Tick(delta)

\* The whole program.
Next == NextFetch \/ NextRefresh

Spec == Init /\ [][Next]_vars

\* The cache under its callers alone, and under the refresher alone.
SpecFetch == Init /\ [][NextFetch]_vars

SpecRefresh == Init /\ [][NextRefresh]_vars

(***************************************************************************)
(* parsePolicy and Policy.Check on their own                               *)
(***************************************************************************)
sSTSv2 == <<"S", "T", "S", "v", "2">>

sReport == <<"r", "e", "p", "o", "r", "t">>

\* The max_age texts that are decimal integers, and two that are not.
DecimalAges ==
    {age0, age1, ageYear, ageYearPlus1, ageWrap, ageWrapSecond, ageMaxInt,
     ageTooLarge, ageNegative}

AgeTexts == DecimalAges \cup {ageNotANumber, <<"~">>}

\* The documents the parser is checked on, by their fields.
ParseInputs ==
    [version : {sSTSv1, sSTSv2},
     mode    : {Enforce, Testing, None, sReport},
     mxs     : {<<>>, <<mxA>>, <<mxA, mxWild>>},
     age     : AgeTexts]

InitParse ==
    /\ clock = I64Zero
    /\ ticks = 0
    /\ files = (strayName :> StrayFile)
    /\ lastStore = <<>>
    /\ counters = ZeroCounters
    /\ proc = [q \in Procs |-> IF q = Refresher THEN [IdleProc EXCEPT !.pc = "start"] ELSE IdleProc]
    /\ rf = IdleRf
    /\ rootCtx = "live"
    /\ calls = 0
    /\ pin \in ParseInputs
    /\ pst = "raw"
    /\ pout = NoParse

\* parsePolicy on the document's text.
DoParse ==
    /\ pst = "raw"
    /\ pst' = "parsed"
    /\ pout' = [p |-> parsePolicy(DocText(pin.version, pin.mode, pin.mxs, pin.age)),
                err |-> "nil"]
    /\ UNCHANGED <<pin, cacheVars>>

\* Policy.Check on the parsed policy.
DoCheck ==
    /\ pst = "parsed"
    /\ pst' = "checked"
    /\ pout' = [pout EXCEPT !.err = Check(pout.p)]
    /\ UNCHANGED <<pin, cacheVars>>

NextParse == DoParse \/ DoCheck

SpecParse == InitParse /\ [][NextParse]_vars

(***************************************************************************)
(* A caller and the refresher on one directory                             *)
(***************************************************************************)
\* The replies of a server that serves a policy document.
PolicyReplies ==
    {reply \in HTTPReplies :
         /\ reply.kind = "response"
         /\ reply.status = 200
         /\ reply.ctype \in {ctPlain, ctPlainCharset}}

\* The callers and the refresher together, the callers with a live context
\* on a domain that has an A-label, and a filesystem that does not fail
\* under them.
NextBoth ==
    \/ \E c \in Callers : CallFetch(c, dA, "live", FALSE)
    \/ \E c \in Callers : LoadRead(c, FALSE)
    \/ \E q \in Procs, reply \in DNSReplies : DnsReply(q, reply)
    \/ \E q \in Procs, reply \in PolicyReplies : HttpReply(q, reply)
    \/ HttpAbort(Refresher)
    \/ \E q \in Procs : StoreWrite(q, FALSE)
    \/ \E q \in Procs : StoreChtimes(q, FALSE)
    \/ \E e \in BOOLEAN : RfPassStart(e)
    \/ RfNextItem
    \/ RfWake
    \/ CancelRoot
    \/ Tick(Seconds(SleepSeconds))

\* The directories whose entry for dA decodes to a policy that is not valid.
BothDirs ==
    {dir \in InitDirs :
         /\ domainPath(dA) \in DOMAIN dir
         /\ Unmarshal(dir[domainPath(dA)].data).err = "nil"
         /\ Check(Unmarshal(dir[domainPath(dA)].data).p) # "nil"}

InitBoth == Init /\ files \in BothDirs

SpecBoth == InitBoth /\ [][NextBoth]_vars

\* The same on every directory that holds at most the entry of dA: none,
\* one about to expire, one holding a policy that is not valid.
OneEntryDirs == {dir \in InitDirs : domainPath(dB) \notin DOMAIN dir}

InitBothOneEntry == Init /\ files \in OneEntryDirs

SpecBothOneEntry == InitBothOneEntry /\ [][NextBoth]_vars

(***************************************************************************)
(* Two callers on one directory                                            *)
(***************************************************************************)
\* Two callers of PolicyCache.Fetch, each making one call for the same
\* domain with a live context, on a filesystem whose stat and read do not
\* fail.
NextPeers ==
    \/ \E c \in Peers : CallFetch(c, dA, "live", FALSE)
    \/ \E c \in Peers : LoadRead(c, FALSE)
    \/ \E c \in Peers, reply \in DNSReplies : DnsReply(c, reply)
    \/ \E c \in Peers, reply \in PolicyReplies : HttpReply(c, reply)
    \/ \E c \in Peers, fail \in BOOLEAN : StoreWrite(c, fail)
    \/ \E c \in Peers, fail \in BOOLEAN : StoreChtimes(c, fail)
    \/ \E delta \in TickDeltas : Tick(delta)

SpecPeers == Init /\ [][NextPeers]_vars

(***************************************************************************)
(* What the contract asks, stated apart from the code                      *)
(***************************************************************************)
\* A policy the contract calls valid.
ValidPolicy(p) ==
    /\ p.Version = sSTSv1
    /\ I64Less(I64Zero, p.MaxAge)
    /\ I64LessEq(p.MaxAge, Seconds(MaxAgeLimitSeconds))
    /\ p.Mode \in {Enforce, Testing, None}
    /\ Len(p.MXs) >= 1

\* The policy a payload decodes to.
Decoded(data) == Unmarshal(data).p

\* The call of c has returned with a cache hit.
Hit(r) == r.pc = "done" /\ r.loadErr = "nil"

\* The errors of load.
LookupFailures ==
    {"file does not exist", "stat io error", "cache entry expired", "read io error",
     "unmarshal error", "unmarshalled invalid policy"}

\* The counters a call with a cache hit advances.
HitCounters == [n \in CounterNames |-> IF n \in {"fetches", "hits"} THEN 1 ELSE 0]

\* Decimal texts compared as the numbers they denote.
RECURSIVE StripZeros(_)
StripZeros(s) == IF Len(s) > 1 /\ s[1] = "0" THEN StripZeros(Tail(s)) ELSE s

RECURSIVE DigitsLess(_, _)
DigitsLess(a, b) ==
    IF a = <<>> THEN FALSE
    ELSE IF a[1] # b[1] THEN DigitVal(a[1]) < DigitVal(b[1])
    ELSE DigitsLess(Tail(a), Tail(b))

DecimalLess(a, b) ==
    LET x == StripZeros(a)
        y == StripZeros(b)
    IN  Len(x) < Len(y) \/ (Len(x) = Len(y) /\ DigitsLess(x, y))

\* 0 < n <= 31557600 for the number n the decimal text denotes.
DecimalInRange(s) ==
    /\ s[1] # "-"
    /\ DecimalLess(age0, s)
    /\ ~DecimalLess(ageYear, s)

\* A document whose fields other than max_age are valid.
OtherFieldsValid(in) ==
    /\ in.version = sSTSv1
    /\ in.mode \in {Enforce, Testing, None}
    /\ in.mxs # <<>>

(***************************************************************************)
(* C1: cache hit                                                           *)
(***************************************************************************)
\* The entry the call found is unexpired, decodable and valid, and load's
\* stat and read of it did not fail.
HoldsFreshEntry(r) ==
    /\ r.pc # "idle"
    /\ r.held # Nil
    /\ I64Less(r.t0, r.held[1].mtime)
    /\ Unmarshal(r.held[1].data).err = "nil"
    /\ ValidPolicy(Decoded(r.held[1].data))
    /\ r.loadErr \notin {"stat io error", "read io error"}

\* C1: a call of PolicyCache.Fetch that finds an unexpired, decodable and
\* valid entry for its domain never calls Fetch, completes no DNS lookup and
\* no HTTP GET, leaves the directory as it was, and returns that entry's
\* policy with a nil error, having advanced fetches and hits by one each
\* and no other counter.
C1_CacheHit ==
    \A c \in Callers :
        LET r == proc[c]
        IN  HoldsFreshEntry(r) =>
                /\ r.pc \in {"read", "done"}
                /\ r.nUp = 0 /\ r.nDNS = 0 /\ r.nHTTP = 0
                /\ r.nWrites = 0 /\ files = r.dir0[1]
                /\ r.inc["fetches"] = 1
                /\ r.pc = "done" =>
                       /\ r.retErr = "nil"
                       /\ r.retP = Ptr(Decoded(r.held[1].data))
                       /\ r.inc = HitCounters

C1_Witness ==
    \E c \in Callers :
        /\ HoldsFreshEntry(proc[c])
        /\ proc[c].pc = "done"
        /\ proc[c].retP = Ptr(PolEnforce)
        /\ counters["hits"] = 1

(***************************************************************************)
(* C2: expiry                                                              *)
(***************************************************************************)
\* C2 as stated: a cache hit only on an entry whose mtime lies strictly
\* after the instant of the read.
C2_StrictlyFuture ==
    \A c \in Callers :
        Hit(proc[c]) => I64Less(proc[c].t0, proc[c].held[1].mtime)

\* C2: load serves an entry only if its mtime is not before the instant of
\* load's expiry test (an entry whose mtime is that very instant is still
\* served); for an entry whose mtime is before that instant, and for no
\* other, it returns the expired error, having advanced the expired counter
\* by one and not read the payload.
C2_ExpiryAtTest ==
    \A c \in Callers :
        LET r == proc[c]
        IN  /\ Hit(r) => r.held # Nil /\ I64LessEq(r.t0, r.held[1].mtime)
            /\ (r.pc # "idle" /\ r.held # Nil /\ r.loadErr # "stat io error") =>
                   IF I64Less(r.held[1].mtime, r.t0)
                   THEN r.loadErr = "cache entry expired" /\ r.seen = Nil
                        /\ r.inc["expired"] = 1
                   ELSE r.loadErr # "cache entry expired" /\ r.inc["expired"] = 0
            /\ (r.pc # "idle" /\ (r.held = Nil \/ r.loadErr = "stat io error")) =>
                   r.inc["expired"] = 0 /\ r.seen = Nil

C2_Witness ==
    \E c \in Callers :
        /\ proc[c].pc = "done"
        /\ proc[c].held # Nil
        /\ I64Less(proc[c].held[1].mtime, proc[c].t0)
        /\ proc[c].loadErr = "cache entry expired"
        /\ counters["expired"] = 1

(***************************************************************************)
(* C3: only validated policies pass through the cache                      *)
(***************************************************************************)
\* C3: every policy PolicyCache.Fetch returns, from the cache or from
\* upstream, and every policy store is called with or has written, is
\* valid; and a payload that decodes to an invalid policy is never served.
C3_OnlyValidated ==
    \A q \in Procs :
        LET r == proc[q]
        IN  /\ (r.pc = "done" /\ r.retP # Nil) => ValidPolicy(r.retP[1])
            /\ r.storeErr # "none" => r.p # Nil /\ ValidPolicy(r.p[1])
            /\ r.pc = "chtimes" => ValidPolicy(Decoded(files[domainPath(r.domain)].data))
            /\ Hit(r) => r.seen # Nil /\ r.retP = Ptr(Decoded(r.seen[1]))
            /\ (r.seen # Nil /\ ~ValidPolicy(Decoded(r.seen[1]))) => r.loadErr # "nil"

C3_Witness ==
    \E c \in Callers :
        /\ proc[c].pc = "done"
        /\ proc[c].loadErr = "unmarshalled invalid policy"
        /\ proc[c].retP # Nil
        /\ proc[c].nWrites = 2
        /\ proc[Refresher].pc = "iter"
        /\ proc[Refresher].storeErr = "nil"
        /\ proc[Refresher].nWrites = 2

(***************************************************************************)
(* C4: the bounds of max_age                                               *)
(***************************************************************************)
\* C4: for a document whose other fields are valid and whose max_age line
\* carries a decimal integer n, parsePolicy followed by Check accepts the
\* policy exactly when 0 < n <= 31557600.
C4_MaxAgeBounds ==
    (pst = "checked" /\ OtherFieldsValid(pin) /\ pin.age \in DecimalAges) =>
        (pout.err = "nil" <=> DecimalInRange(pin.age))

(***************************************************************************)
(* C5: read-through recovery                                               *)
(***************************************************************************)
\* C5: when load fails, for whatever reason, PolicyCache.Fetch calls Fetch
\* exactly once, under the caller's context (so that a context canceled
\* from the start makes Fetch fail), and returns what Fetch returned: the
\* fetched policy with a nil error, or a nil policy with the error of
\* Fetch, never load's error.
C5_ReadThrough ==
    \A c \in Callers :
        LET r == proc[c]
        IN  (r.pc # "idle" /\ r.loadErr # "nil") =>
                /\ r.loadErr \in LookupFailures
                /\ r.nUp = 1
                /\ r.pc = "done" =>
                       /\ r.ctx0 = "canceled" => r.fetchErr # "nil"
                       /\ r.retErr \notin LookupFailures
                       /\ IF r.fetchErr = "nil"
                          THEN r.p # Nil /\ r.retP = r.p /\ r.retErr = "nil"
                          ELSE r.retP = Nil /\ r.retErr = r.fetchErr

C5_Witness ==
    \E c \in Callers :
        /\ proc[c].pc = "done"
        /\ proc[c].loadErr = "unmarshal error"
        /\ proc[c].nUp = 1
        /\ proc[c].retP = Ptr(PolTesting)

(***************************************************************************)
(* C6: a store failure does not suppress the result                        *)
(***************************************************************************)
\* C6: when Fetch succeeded and store failed, PolicyCache.Fetch returns the
\* fetched policy with a nil error; and it returns only once store has
\* returned.
C6_StoreFailure ==
    \A c \in Callers :
        LET r == proc[c]
        IN  /\ (r.pc = "done" /\ r.storeErr = "io error") =>
                   r.p # Nil /\ r.retP = r.p /\ r.retErr = "nil"
            /\ (r.pc = "done" /\ r.nUp = 1 /\ r.fetchErr = "nil") =>
                   r.storeErr \in {"nil", "io error"}
            /\ r.storeErr = "pending" => r.pc \in {"write", "chtimes"}

C6_Witness ==
    \E c \in Callers :
        /\ proc[c].pc = "done"
        /\ proc[c].storeErr = "io error"
        /\ proc[c].retP = Ptr(PolEnforce)
        /\ counters["ioErrors"] = 1

(***************************************************************************)
(* C7: a failed upstream fetch leaves the cache unchanged                  *)
(***************************************************************************)
\* C7: when Fetch fails inside PolicyCache.Fetch, the directory is as it
\* was when the call was made (no entry created, overwritten, deleted or
\* re-timed), store was not called, and failedFetch advanced by one.
C7_FailedFetchFrame ==
    \A c \in Callers :
        LET r == proc[c]
        IN  (r.pc = "done" /\ r.fetchErr # "nil") =>
                /\ files = r.dir0[1]
                /\ r.nWrites = 0
                /\ r.storeErr = "none"
                /\ r.inc["failedFetch"] = 1
                /\ r.retP = Nil

C7_Witness ==
    \E c \in Callers :
        /\ proc[c].pc = "done"
        /\ proc[c].fetchErr = "HTTP response status code"
        /\ proc[c].loadErr = "cache entry expired"
        /\ files = proc[c].dir0[1]
        /\ counters["failedFetch"] = 1

(***************************************************************************)
(* C8: the refresher isolates failures                                     *)
(***************************************************************************)
\* The domains of the entries of a listing that carry the prefix, in the
\* listing's order.
PolDomains(entries) ==
    LET pol == SelectSeq(entries, LAMBDA e : HasPrefix(e, pathPrefix))
    IN  [i \in 1..Len(pol) |-> SubSeq(pol[i], Len(pathPrefix) + 1, Len(pol[i]))]

LogDomains(log) == [i \in 1..Len(log) |-> log[i].domain]

\* C8: when the fetch of an entry fails in a refresh pass, the directory is
\* as it was when the entry was taken and refreshErrors advanced by one;
\* and a pass that has listed the directory goes through every entry with
\* the prefix, in order, whatever failed on the way.
C8_RefreshIsolation ==
    LET r == proc[Refresher]
    IN  /\ (r.pc = "iter" /\ rf.idx >= 1 /\ r.fetchErr # "nil") =>
               /\ files = r.dir0[1]
               /\ r.nWrites = 0
               /\ r.inc["refreshErrors"] = 1
        /\ (r.pc = "iter" /\ rf.idx >= 1 /\ r.fetchErr = "nil") =>
               r.inc["refreshErrors"] = 0
        /\ \A i \in 1..Len(rf.log) : rf.log[i].failed => rf.log[i].nWrites = 0
        /\ (r.pc = "sleep" /\ rf.idx = Len(rf.entries) + 1) =>
               LogDomains(rf.log) = PolDomains(rf.entries)

C8_Witness ==
    /\ proc[Refresher].pc = "sleep"
    /\ Len(rf.log) = 2
    /\ rf.log[1].failed
    /\ ~rf.log[2].failed
    /\ rf.log[2].nWrites = 2
    /\ counters["refreshErrors"] = 1

(***************************************************************************)
(* C9: the refresher's termination                                         *)
(***************************************************************************)
\* C9: once the root context is canceled, the refresher takes no further
\* entry and does not go to sleep.
C9_StopsOnCancel ==
    [][rootCtx = "canceled" =>
           /\ counters'["refreshes"] = counters["refreshes"]
           /\ proc'[Refresher].pc = "sleep" => proc[Refresher].pc = "sleep"]_vars

(***************************************************************************)
(* C10: cancelable upstream I/O                                            *)
(***************************************************************************)
\* C10: no network operation of a fetch completes once the fetch's context
\* is done, and a fetch called with a context that is already canceled
\* completes none.
C10_Cancelable ==
    \A q \in Procs :
        /\ proc[q].lateNet = 0
        /\ proc[q].ctx0 = "canceled" => proc[q].nDNS = 0 /\ proc[q].nHTTP = 0

(***************************************************************************)
(* C11: store and load round trip                                          *)
(***************************************************************************)
\* Two policies equal field by field.
SamePolicy(a, b) ==
    /\ a.Version = b.Version
    /\ a.Mode = b.Mode
    /\ Len(a.MXs) = Len(b.MXs)
    /\ \A i \in 1..Len(a.MXs) : a.MXs[i] = b.MXs[i]
    /\ a.MaxAge = b.MaxAge

Renames(q) == proc[q].pc = "write" /\ proc'[q].pc = "chtimes"

StoreSucceeds(q) == proc[q].pc = "chtimes" /\ proc'[q].storeErr = "nil"

\* C12: when a store called at instant t with policy p returns without an
\* error, the entry's mtime is t + p.max_age; and the rename of a store
\* puts its policy's payload in the place of the old entry.
C12_ExpiryWritten ==
    [][\A q \in Procs :
           LET name == domainPath(proc[q].domain)
           IN  /\ StoreSucceeds(q) =>
                      /\ name \in DOMAIN files'
                      /\ files'[name].mtime = I64Add(proc[q].tStore, proc[q].p[1].MaxAge)
               /\ Renames(q) =>
                      /\ name \in DOMAIN files'
                      /\ files'[name].data = Marshal(proc[q].p[1])]_vars

C12_Witness ==
    LET r == proc[Refresher]
    IN  /\ r.pc = "iter"
        /\ r.storeErr = "nil"
        /\ r.tStore = Seconds(SleepSeconds)
        /\ r.p = Ptr(PolTesting)
        /\ r.held # Nil /\ r.held[1].data # Marshal(PolTesting)
        /\ files[domainPath(r.domain)] =
               File(Marshal(PolTesting), Seconds(SleepSeconds + MaxAgeLimitSeconds))

(***************************************************************************)
(* C13: two successive stores of one policy                                *)
(***************************************************************************)
\* The call of caller c has stored the policy that the store before it on
\* the same entry had stored.
StoredAgain(c) ==
    LET r == proc[c]
    IN  /\ r.pc = "done"
        /\ r.storeErr = "nil"
        /\ r.held # Nil
        /\ r.heldLast # Nil
        /\ r.heldLast = r.p

\* The statement as written: when store(d, p) follows a store(d, p) and no
\* I/O error has occurred, the entry of d is what the first store left,
\* payload and mtime.
C13_SameExpiry ==
    \A c \in Callers :
        (StoredAgain(c) /\ counters["ioErrors"] = 0) =>
            files[domainPath(proc[c].domain)] = proc[c].held[1]

\* C13: when store(d, p) follows a store(d, p), the directory holds the
\* same names, every other entry is untouched and the payload of d is the
\* same; the mtime of d is the instant of the second call plus p.max_age,
\* which is the first store's mtime only when the second call is made at
\* the instant of the first.
C13_StoreTwice ==
    \A c \in Callers :
        LET r    == proc[c]
            name == domainPath(r.domain)
        IN  StoredAgain(c) =>
                /\ DOMAIN files = DOMAIN r.dir0[1]
                /\ \A n \in DOMAIN files : n # name => files[n] = r.dir0[1][n]
                /\ files[name].data = r.held[1].data
                /\ files[name].mtime = I64Add(r.tStore, r.p[1].MaxAge)

C13_Witness ==
    \E c \in Callers :
        /\ StoredAgain(c)
        /\ counters["ioErrors"] = 0
        /\ proc[c].p = Ptr(PolEnforce)
        /\ proc[c].held[1] = File(Marshal(PolEnforce), Seconds(1))
        /\ files[domainPath(proc[c].domain)] =
               File(Marshal(PolEnforce), Seconds(SleepSeconds + 1))

(***************************************************************************)
(* MXIsAllowed on its own                                                  *)
(***************************************************************************)
mxB == <<"b">>

mxBUpperDot == <<"B", ".">>

mxWildUmlaut == <<"*", ".", "ü">>

MXPatterns == {mxB, mxWild, mxBUpperDot, mxWildUmlaut, sBadALabel}

mxAB == <<"a", ".", "b">>

mxABUpperDot == <<"A", ".", "B", ".">>

mxAAB == <<"a", ".", "a", ".", "b">>

mxDotB == <<".", "b">>

mxAUmlaut == <<"a", ".", "ü">>

mxAUmlautALabel == <<"a", ".">> \o sUmlautALabel

mxABadALabel == <<"a", ".">> \o sBadALabel

MXCandidates ==
    {mxB, mxAB, mxABUpperDot, mxAAB, mxDotB, mxWild, sUmlaut, mxAUmlaut,
     mxAUmlautALabel, sBadALabel, mxABadALabel}

MaxPatterns == 2

MXInputs ==
    [mode : {Enforce, Testing, <<>>},
     mxs  : UNION {[1..n -> MXPatterns] : n \in 0..MaxPatterns},
     mx   : MXCandidates]

\* The policy a caller of MXIsAllowed holds.
PolicyOf(in) ==
    [Version |-> sSTSv1, Mode |-> in.mode, MXs |-> in.mxs, MaxAge |-> Seconds(1)]

InitMX ==
    /\ clock = I64Zero
    /\ ticks = 0
    /\ files = (strayName :> StrayFile)
    /\ lastStore = <<>>
    /\ counters = ZeroCounters
    /\ proc = [q \in Procs |-> IF q = Refresher THEN [IdleProc EXCEPT !.pc = "start"] ELSE IdleProc]
    /\ rf = IdleRf
    /\ rootCtx = "live"
    /\ calls = 0
    /\ pin \in MXInputs
    /\ pst = "raw"
    /\ pout = NoParse

\* Policy.MXIsAllowed on the candidate.
DoMatch ==
    /\ pst = "raw"
    /\ pst' = "matched"
    /\ pout' = [allowed |-> MXIsAllowed(PolicyOf(pin), pin.mx)]
    /\ UNCHANGED <<pin, cacheVars>>

NextMX == DoMatch

SpecMX == InitMX /\ [][NextMX]_vars

(***************************************************************************)
(* C14: MX matching                                                        *)
(***************************************************************************)
\* The match of the statement, on labels: both names normalise, and they
\* are equal or the pattern's first label is "*" and the rest of its labels
\* are all the labels of the candidate but the first.
PatternMatches(pattern, c) ==
    LET np == domainToASCII(pattern)
        nc == domainToASCII(c)
    IN  /\ np.err = "nil"
        /\ nc.err = "nil"
        /\ \/ np.val = nc.val
           \/ /\ Len(Labels(np.val)) > 1
              /\ Labels(np.val)[1] = <<"*">>
              /\ Len(Labels(nc.val)) > 1
              /\ Tail(Labels(nc.val)) = Tail(Labels(np.val))

\* C14: MXIsAllowed(p, c) is true exactly when p.mode is not enforce or some
\* pattern of p.mxs matches c after normalisation; under "*.b" alone the
\* candidate a.b is allowed and b and a.a.b are not; a candidate that does
\* not normalise matches nothing; and a candidate allowed under enforce has
\* as many labels as a pattern of the policy.
C14_MXMatching ==
    pst = "matched" =>
        /\ pout.allowed =
               (\/ pin.mode # Enforce
                \/ \E i \in 1..Len(pin.mxs) : PatternMatches(pin.mxs[i], pin.mx))
        /\ (pin.mode = Enforce /\ pin.mxs = <<mxWild>>) =>
               /\ pin.mx = mxAB => pout.allowed
               /\ pin.mx = mxB => ~pout.allowed
               /\ pin.mx = mxAAB => ~pout.allowed
        /\ (pin.mode = Enforce /\ domainToASCII(pin.mx).err # "nil") => ~pout.allowed
        /\ (pin.mode = Enforce /\ pout.allowed) =>
               \E i \in 1..Len(pin.mxs) :
                   /\ domainToASCII(pin.mxs[i]).err = "nil"
                   /\ Len(Labels(domainToASCII(pin.mxs[i]).val)) =
                          Len(Labels(domainToASCII(pin.mx).val))

C14_Witness ==
    /\ pst = "matched"
    /\ pin.mode = Enforce
    /\ pin.mxs = <<sBadALabel, mxWildUmlaut>>
    /\ pin.mx = mxAUmlautALabel
    /\ pout.allowed

(***************************************************************************)
(* C15: what one refresh pass covers                                       *)
(***************************************************************************)
\* The refresher is between the end of a pass and the start of the next.
PassOver == proc[Refresher].pc \in {"sleep", "start"} /\ rf.passes >= 1

\* C15: a pass that has listed the directory has started the fetch once for
\* every entry of the listing whose name starts with "pol:", in the order of
\* the listing, and for nothing else; refreshes has advanced by the number
\* of those entries and refreshCycles by one since the start of the pass.
\* While a pass is under way refreshCycles is as it was at its start, and
\* refreshes has advanced by the number of entries taken so far. A pass
\* whose listing failed advances refreshCycles alone.
C15_PassCoverage ==
    LET n == Len(PolDomains(rf.entries))
    IN  /\ PassOver =>
               /\ counters["refreshCycles"] = rf.count0["refreshCycles"] + 1
               /\ counters["refreshes"] = rf.count0["refreshes"] + n
               /\ LogDomains(rf.log) = PolDomains(rf.entries)
               /\ \A i \in 1..Len(rf.log) : rf.log[i].nUp = 1
        /\ (proc[Refresher].pc \notin {"sleep", "start", "exited"}) =>
               /\ counters["refreshCycles"] = rf.count0["refreshCycles"]
               /\ counters["refreshes"] = rf.count0["refreshes"] + Len(rf.log) +
                                          (IF rf.idx >= 1 THEN 1 ELSE 0)
               /\ proc[Refresher].nUp = (IF rf.idx >= 1 THEN 1 ELSE 0)
        /\ counters["refreshCycles"] <= rf.passes

\* A pass over an expired entry and a fresh one has refreshed both.
C15_Witness ==
    /\ PassOver
    /\ rf.entries = <<domainPath(dA), domainPath(dB)>>
    /\ LogDomains(rf.log) = <<dA, dB>>
    /\ rf.log[1].expired
    /\ ~rf.log[2].expired
    /\ counters["refreshes"] = 2
    /\ counters["refreshCycles"] = 1

(***************************************************************************)
(* C16: the validity check                                                 *)
(***************************************************************************)
\* The four conditions of the statement on a policy.
VersionOK(p) == p.Version = sSTSv1

MaxAgeOK(p) ==
    I64Less(I64Zero, p.MaxAge) /\ I64LessEq(p.MaxAge, Seconds(MaxAgeLimitSeconds))

ModeOK(p) == p.Mode \in {Enforce, Testing, None}

MXsOK(p) == p.MXs # <<>>

\* C16: Check returns nil exactly when the version is "STSv1", max_age is
\* above zero and at most 31557600 s, the mode is one of enforce, testing
\* and none, and there is at least one mx; otherwise it returns the error of
\* the first of these conditions that fails, in this order; and the policy
\* is after Check what parsePolicy returned.
C16_Check ==
    pst = "checked" =>
        LET p == pout.p
        IN  /\ pout.err = "nil" <=> (VersionOK(p) /\ MaxAgeOK(p) /\ ModeOK(p) /\ MXsOK(p))
            /\ ~VersionOK(p) => pout.err = "ErrUnknownVersion"
            /\ (VersionOK(p) /\ ~MaxAgeOK(p)) => pout.err = "ErrInvalidMaxAge"
            /\ (VersionOK(p) /\ MaxAgeOK(p) /\ ~ModeOK(p)) => pout.err = "ErrInvalidMode"
            /\ (VersionOK(p) /\ MaxAgeOK(p) /\ ModeOK(p) /\ ~MXsOK(p)) =>
                   pout.err = "ErrInvalidMX"
            /\ p = parsePolicy(DocText(pin.version, pin.mode, pin.mxs, pin.age))

\* Three conditions fail at once and the error is that of the first.
C16_Witness ==
    /\ pst = "checked"
    /\ pin.version = sSTSv1
    /\ pin.age = ageYearPlus1
    /\ pin.mode = sReport
    /\ pin.mxs = <<>>
    /\ pout.p.MaxAge = Seconds(MaxAgeLimitSeconds + 1)
    /\ pout.err = "ErrInvalidMaxAge"

(***************************************************************************)
(* C17: what concurrent stores leave in an entry                           *)
(***************************************************************************)
\* The payloads the directory was constructed with under the name n.
InitialData(n) == {dir[n].data : dir \in {d \in InitDirs : n \in DOMAIN d}}

\* C17: with the caller's lookups and stores and the refresher's stores
\* interleaved on one entry, every entry that a store has renamed onto
\* holds the whole payload of the store that renamed last, which is a valid
\* policy; an entry no store has renamed onto holds what the directory was
\* constructed with; and a lookup that succeeds returns a valid policy, the
\* one of the store whose payload it read.
C17_AtomicWrite ==
    /\ \A n \in DOMAIN files :
           IF n \in DOMAIN lastStore
           THEN /\ files[n].data = Marshal(lastStore[n][1])
                /\ ValidPolicy(lastStore[n][1])
           ELSE files[n].data \in InitialData(n)
    /\ DOMAIN lastStore \subseteq DOMAIN files
    /\ \A c \in Callers :
           Hit(proc[c]) =>
               /\ proc[c].retP # Nil
               /\ ValidPolicy(proc[c].retP[1])
               /\ proc[c].seenLast # Nil
               /\ SamePolicy(proc[c].retP[1], proc[c].seenLast[1])

\* The caller's lookup has read the entry between the rename and the
\* chtimes of the refresher's store, and returned the refresher's policy.
C17_Witness ==
    \E c \in Callers :
        /\ Hit(proc[c])
        /\ proc[Refresher].pc = "chtimes"
        /\ proc[c].domain = proc[Refresher].domain
        /\ proc[c].held # Nil
        /\ ~ValidPolicy(Decoded(proc[c].held[1].data))
        /\ proc[c].retP = proc[Refresher].p

(***************************************************************************)
(* C18: callers that miss at the same time                                 *)
(***************************************************************************)
\* The call of c missed the cache.
Missed(r) == r.loadErr # "nil"

\* What holds of the two callers in every state.
EachFetchesItsOwn ==
    /\ \A c \in Peers :
           LET r == proc[c]
           IN  /\ (r.pc \in {"dns", "http", "write", "chtimes"}) => r.nUp = 1
               /\ (r.pc = "done" /\ Missed(r)) => r.nUp = 1
               /\ (r.pc = "done" /\ ~Missed(r)) => r.nUp = 0
               /\ (r.pc = "done" /\ Missed(r) /\ r.fetchErr = "nil") =>
                      /\ r.p # Nil
                      /\ r.retP = r.p
                      /\ r.retErr = "nil"
    /\ \A n \in DOMAIN lastStore :
           n \in DOMAIN files /\ files[n].data = Marshal(lastStore[n][1])

\* A step in which one caller moves leaves the other caller where it is,
\* with all it holds.
OneCallerMoves ==
    \A c \in Peers : proc'[c] # proc[c] => \A w \in Peers \ {c} : proc'[w] = proc[w]

\* C18: of two callers of PolicyCache.Fetch on one domain, each one that
\* misses starts its own fetch, exactly one; each one whose fetch succeeds
\* returns the policy it fetched itself; the payload on disk is that of the
\* store that renamed last; and no step of one caller moves, holds back or
\* changes the call of the other.
C18_NoSingleflight == []EachFetchesItsOwn /\ [][OneCallerMoves]_vars

\* Both callers found no entry; one has fetched, stored and returned its
\* policy while the fetch of the other is still on its HTTP request.
C18_Witness ==
    \E c \in Peers, w \in Peers :
        /\ c # w
        /\ proc[c].loadErr = "file does not exist"
        /\ proc[w].loadErr = "file does not exist"
        /\ proc[c].pc = "done"
        /\ proc[c].storeErr = "nil"
        /\ proc[c].retP = Ptr(PolEnforce)
        /\ proc[w].pc = "http"
        /\ proc[w].nUp = 1
        /\ files[domainPath(dA)].data = Marshal(PolEnforce)

(***************************************************************************)
(* C19: nothing is deleted                                                 *)
(***************************************************************************)
\* The store of q is at one of its two steps on the entry named n.
Storing(q, n) ==
    /\ proc[q].pc \in {"write", "chtimes"}
    /\ domainPath(proc[q].domain) = n

\* What a step does to the directory: every name stays; a new name comes
\* from the rename of a caller's store and never from the refresher; and an
\* entry, expired or not, changes only in a step of a store on it.
DirectoryStep ==
    /\ DOMAIN files \subseteq DOMAIN files'
    /\ \A n \in DOMAIN files' \ DOMAIN files :
           /\ \E c \in Callers : Storing(c, n) /\ proc'[c] # proc[c]
           /\ proc'[Refresher] = proc[Refresher]
    /\ \A n \in DOMAIN files :
           files'[n] # files[n] => \E q \in Procs : Storing(q, n) /\ proc'[q] # proc[q]

\* The refresher stores only onto entries of its listing that are still
\* there, and no call is served from an entry that had expired.
RefresherOverwrites ==
    /\ proc[Refresher].pc \in {"dns", "http", "write", "chtimes"} =>
           /\ domainPath(proc[Refresher].domain) \in DOMAIN files
           /\ \E j \in 1..Len(rf.entries) : rf.entries[j] = domainPath(proc[Refresher].domain)
    /\ \A c \in Callers :
           Hit(proc[c]) =>
               /\ proc[c].held # Nil
               /\ ~Expired(proc[c].held[1].mtime, proc[c].t0)

\* C19: with a caller and the refresher at work, the names in the cache
\* directory never become fewer; the refresher creates no name and stores
\* only onto entries it has listed; an entry changes only when a store
\* writes it; and an expired entry is not served.
C19_NoDeletion == []RefresherOverwrites /\ [][DirectoryStep]_vars

\* The entry has expired, a refresh pass and a caller have both failed to
\* fetch its domain, and it is on disk as it was.
C19_Witness ==
    /\ proc[Refresher].pc = "sleep"
    /\ Len(rf.log) = 1
    /\ rf.log[1].failed
    /\ \E c \in Callers :
           /\ proc[c].pc = "done"
           /\ proc[c].loadErr = "cache entry expired"
           /\ proc[c].fetchErr # "nil"
    /\ files[domainPath(dA)] = File(Marshal(PolEnforce), Seconds(1))
    /\ Expired(Seconds(1), clock)

(***************************************************************************)
(* C20: the order of the steps of a fetch                                  *)
(***************************************************************************)
\* The answer to the TXT lookup carries a value that starts with "v=STSv1;".
ProbeTrue(reply) ==
    /\ reply.err = "nil"
    /\ \E i \in 1..Len(reply.txts) :
           /\ Len(reply.txts[i]) >= Len(sTXTPrefix)
           /\ \A k \in 1..Len(sTXTPrefix) : reply.txts[i][k] = sTXTPrefix[k]

\* C20: in a fetch the domain is normalised first, then the TXT lookup is
\* made, then the HTTP request, then the policy is parsed and checked: an
\* HTTP request is out or has been made only after a TXT answer with a
\* record; a store has been started only after one HTTP request, with a
\* policy that is valid; a TXT answer without a record ends the fetch with
\* "MTA-STS TXT record missing" and a lookup error ends it with that error,
\* in both cases with no HTTP request; and a domain that does not normalise
\* ends it with the error of idna.ToASCII before any lookup or request.
C20_PipelineOrder ==
    \A c \in Callers :
        LET r == proc[c]
        IN  /\ r.nHTTP <= r.nDNS /\ r.nDNS <= r.nUp /\ r.nUp <= 1
            /\ (r.pc = "dns") => (r.nDNS = 0 /\ idnaToASCII(r.domain).err = "nil")
            /\ (r.pc = "http" \/ r.nHTTP > 0) =>
                   /\ r.nDNS = 1
                   /\ r.dnsSeen # Nil
                   /\ ProbeTrue(r.dnsSeen[1])
            /\ (r.storeErr # "none") =>
                   /\ r.nHTTP = 1
                   /\ r.p # Nil
                   /\ ValidPolicy(r.p[1])
            /\ (r.dnsSeen # Nil /\ r.dnsSeen[1].err = "nil" /\ ~ProbeTrue(r.dnsSeen[1])) =>
                   /\ r.pc = "done"
                   /\ r.fetchErr = "MTA-STS TXT record missing"
                   /\ r.retErr = r.fetchErr
                   /\ r.nHTTP = 0
            /\ (r.dnsSeen # Nil /\ r.dnsSeen[1].err # "nil") =>
                   /\ r.pc = "done"
                   /\ r.fetchErr = r.dnsSeen[1].err
                   /\ r.retErr = r.fetchErr
                   /\ r.nHTTP = 0
            /\ (r.nUp = 1 /\ idnaToASCII(r.domain).err # "nil") =>
                   /\ r.pc = "done"
                   /\ r.fetchErr = idnaToASCII(r.domain).err
                   /\ r.retErr = r.fetchErr
                   /\ r.nDNS = 0
                   /\ r.nHTTP = 0

\* The lookup answered with a TXT value that lacks the semicolon, and the
\* fetch ended without an HTTP request.
C20_Witness ==
    \E c \in Callers :
        /\ proc[c].pc = "done"
        /\ proc[c].dnsSeen # Nil
        /\ proc[c].dnsSeen[1].err = "nil"
        /\ proc[c].dnsSeen[1].txts # <<>>
        /\ proc[c].fetchErr = "MTA-STS TXT record missing"
        /\ proc[c].nDNS = 1
        /\ proc[c].nHTTP = 0

(***************************************************************************)
(* One caller that spells its domains as it likes                          *)
(***************************************************************************)
dAUpper == <<"A">>

dADot == <<"a", ".">>

dSlash == <<"a", "/", "b">>

\* Three spellings of the domain a, and a string with a slash in it.
Spellings == {dA, dAUpper, dADot, dSlash}

NextSpellings ==
    \/ \E c \in Callers, d \in Spellings : CallFetch(c, d, "live", FALSE)
    \/ \E c \in Callers : LoadRead(c, FALSE)
    \/ \E c \in Callers : Return(c)
    \/ \E c \in Callers, reply \in DNSReplies : DnsReply(c, reply)
    \/ \E c \in Callers, reply \in PolicyReplies : HttpReply(c, reply)
    \/ \E c \in Callers : StoreWrite(c, FALSE)
    \/ \E c \in Callers : StoreChtimes(c, FALSE)

SpecSpellings == Init /\ [][NextSpellings]_vars

(***************************************************************************)
(* C21: the names of the entries                                           *)
(***************************************************************************)
\* The domain an entry's name carries after the prefix.
DomainOf(n) == SubSeq(n, Len(pathPrefix) + 1, Len(n))

\* C21: every entry of the cache is named "pol:" followed by a domain in
\* normal form (lower case, no trailing dot, IDNA-ASCII), so that the
\* spellings of one domain share one entry.
C21_NormalizedKeys ==
    \A n \in DOMAIN files :
        HasPrefix(n, pathPrefix) =>
            /\ domainToASCII(DomainOf(n)).err = "nil"
            /\ domainToASCII(DomainOf(n)).val = DomainOf(n)

(***************************************************************************)
(* C22: containment in the cache directory                                 *)
(***************************************************************************)
\* C22: a call of PolicyCache.Fetch on a domain with a slash panics, and has
\* by then made no stat, read, write, TXT lookup or HTTP request and fetched
\* nothing; every other call works on the name "pol:" followed by its
\* domain, which has no slash in it; and so has every name in the directory
\* and every name a store has written.
C22_Containment ==
    /\ \A c \in Callers :
           LET r == proc[c]
           IN  /\ (r.pc # "idle" /\ Contains(r.domain, "/")) => r.pc = "panicked"
               /\ r.pc = "panicked" =>
                      /\ Contains(r.domain, "/")
                      /\ r.dir0 = Nil /\ r.held = Nil /\ r.seen = Nil
                      /\ r.nUp = 0 /\ r.nDNS = 0 /\ r.nHTTP = 0 /\ r.dnsSeen = Nil
                      /\ r.nWrites = 0 /\ r.storeErr = "none"
                      /\ r.retP = Nil
               /\ (r.pc \notin {"idle", "panicked"}) =>
                      /\ domainPath(r.domain) = <<"p", "o", "l", ":">> \o r.domain
                      /\ ~Contains(domainPath(r.domain), "/")
    /\ \A n \in DOMAIN files : ~Contains(n, "/")
    /\ \A n \in DOMAIN lastStore :
           /\ n \in DOMAIN files
           /\ HasPrefix(n, <<"p", "o", "l", ":">>)

\* A call on a/b has panicked after an earlier call stored the entry of a.
C22_Witness ==
    \E c \in Callers :
        /\ proc[c].pc = "panicked"
        /\ proc[c].domain = dSlash
        /\ domainPath(dA) \in DOMAIN lastStore
        /\ DOMAIN files = {strayName, domainPath(dA)}

(***************************************************************************)
(* A caller that calls again and again, beside the refresher               *)
(***************************************************************************)
\* What the server of the policy comes back with here: no document, or one.
AccountReplies ==
    {reply \in HTTPReplies :
         /\ reply.kind = "response"
         /\ reply.ctype = ctPlain
         /\ reply.body \in {<<>>, DocEnforce}}

\* The directories that start with a valid entry for dA and none for dB.
AccountDirs ==
    {dir \in OneEntryDirs :
         /\ domainPath(dA) \in DOMAIN dir
         /\ Check(Unmarshal(dir[domainPath(dA)].data).p) = "nil"}

NextAccounts ==
    \/ \E c \in Callers : CallFetch(c, dA, "live", FALSE)
    \/ \E c \in Callers : LoadRead(c, FALSE)
    \/ \E c \in Callers : Return(c)
    \/ \E q \in Callers \cup {Refresher}, reply \in DNSReplies : DnsReply(q, reply)
    \/ \E q \in Callers \cup {Refresher}, reply \in AccountReplies : HttpReply(q, reply)
    \/ \E q \in Callers \cup {Refresher} : StoreWrite(q, FALSE)
    \/ \E q \in Callers \cup {Refresher} : StoreChtimes(q, FALSE)
    \/ \E e \in BOOLEAN : RfPassStart(e)
    \/ RfNextItem
    \/ RfWake
    \/ Tick(Seconds(SleepSeconds))

InitAccounts == Init /\ files \in AccountDirs

SpecAccounts == InitAccounts /\ [][NextAccounts]_vars

(***************************************************************************)
(* C23: what the counters add up to                                        *)
(***************************************************************************)
\* By how much a step advances the counter n.
Delta(n) == counters'[n] - counters[n]

\* 1 when P holds, 0 when it does not.
OneIf(P) == IF P THEN 1 ELSE 0

\* The callers whose call begins, is served from the cache, or fails
\* upstream in the step.
Begins(c) == proc[c].pc = "idle" /\ proc'[c].pc # "idle"

Served(c) == proc[c].pc # "done" /\ proc'[c].pc = "done" /\ proc'[c].loadErr = "nil"

FailsUpstream(c) ==
    proc[c].pc # "done" /\ proc'[c].pc = "done" /\ proc'[c].fetchErr # "nil"

\* The refresher takes an entry, and the fetch of its entry fails, in the
\* step.
TakesAnEntry == rf'.idx # rf.idx /\ rf'.idx \in 1..Len(rf'.entries)

RefreshFails ==
    /\ proc'[Refresher] # proc[Refresher]
    /\ proc'[Refresher].pc = "iter"
    /\ proc'[Refresher].fetchErr # "nil"

\* What every step does to the counters.
CountingStep ==
    /\ \A n \in CounterNames : counters'[n] >= counters[n]
    /\ Delta("fetches") = Cardinality({c \in Callers : Begins(c)})
    /\ Delta("hits") = Cardinality({c \in Callers : Served(c)})
    /\ Delta("failedFetch") = Cardinality({c \in Callers : FailsUpstream(c)})
    /\ \A c \in Callers : ~(Served(c) /\ FailsUpstream(c))
    /\ Delta("refreshes") = OneIf(TakesAnEntry)
    /\ Delta("refreshErrors") = OneIf(RefreshFails)

\* What the counters and the calls stand at in every state.
CountersAddUp ==
    /\ counters["fetches"] = calls
    /\ counters["hits"] + counters["failedFetch"] <= counters["fetches"]
    /\ counters["refreshErrors"] <= counters["refreshes"]
    /\ \A c \in Callers :
           LET r == proc[c]
           IN  /\ r.pc # "idle" => r.inc["fetches"] = 1
               /\ (r.pc \notin {"idle", "done"}) =>
                      r.inc["hits"] = 0 /\ r.inc["failedFetch"] = 0
               /\ r.pc = "done" =>
                      /\ r.inc["hits"] = OneIf(r.loadErr = "nil")
                      /\ r.inc["failedFetch"] = OneIf(r.fetchErr # "nil")
                      /\ r.inc["hits"] + r.inc["failedFetch"] <= 1
               /\ r.inc["refreshes"] = 0 /\ r.inc["refreshErrors"] = 0
    /\ LET r == proc[Refresher]
       IN  /\ r.inc["fetches"] = 0 /\ r.inc["hits"] = 0 /\ r.inc["failedFetch"] = 0
           /\ (rf.idx \in 1..Len(rf.entries)) =>
                  /\ r.inc["refreshes"] = 1
                  /\ r.inc["refreshErrors"] = OneIf(r.fetchErr # "nil")

\* C23: no counter ever goes down; each call of PolicyCache.Fetch advances
\* fetches by one when it begins, and by the time it has returned it has
\* advanced hits by one exactly when it was served from the cache and
\* failedFetch by one exactly when its fetch failed, never both, so that
\* hits + failedFetch <= fetches; each entry the refresher takes advances
\* refreshes by one, and refreshErrors by one exactly when its fetch fails,
\* so that refreshErrors <= refreshes.
C23_CounterAccounting == []CountersAddUp /\ [][CountingStep]_vars

\* Two calls have returned, one served from the cache and one whose fetch
\* failed, and the refresher's one entry failed too.
C23_Witness ==
    /\ \A c \in Callers : proc[c].pc \in {"idle", "done"}
    /\ proc[Refresher].pc = "sleep"
    /\ calls = 2
    /\ counters["fetches"] = 2
    /\ counters["hits"] = 1
    /\ counters["failedFetch"] = 1
    /\ counters["refreshes"] = 1
    /\ counters["refreshErrors"] = 1

=============================================================================
